---- MODULE Spec2Model ----
(***************************************************************************)
(* A model of notero-custom's note conversion: the HTML -> Notion block    *)
(* conversion (convertHtmlToBlocks and its helpers), the image upload it   *)
(* awaits (uploadToImgur), and the grouping and batching of the converted  *)
(* blocks (buildNoteBlockBatches).                                         *)
(*                                                                         *)
(* Strings whose characters the code inspects (trim, slice, split) are     *)
(* sequences of one-character strings; tokens the code only compares       *)
(* (tag names, class names, color tokens, titles) are TLA+ strings.        *)
(***************************************************************************)
EXTENDS Integers, Sequences, FiniteSets, TLC

VARIABLES
  \* --- conversion pipeline (buildNoteBlockBatches -> convertHtmlToBlocks)
  doc,          \* the parsed document: the sequence of body's child nodes
  isAnnotation, \* options.isAnnotation
  limit,        \* LIMITS.BLOCK_ARRAY_ELEMENTS
  pc,           \* position of buildNoteBlockBatches
  tasks,        \* one record per <p>: the promise of its async map callback
  settleOrder,  \* the order in which the awaited uploads settled
  prefCache,    \* the persisted pref extensions.notero.imgurCache
  blocks,       \* what convertHtmlToBlocks resolved with
  grouped,      \* blocks after the color grouping pass
  batches,      \* what buildNoteBlockBatches returns
  \* --- trimRichText applied to a span sequence
  trimPc, trimIn, trimOut,
  \* --- parseNode applied to a node
  parsePc, parseIn, parseOut,
  \* --- getNotionColorFromHex applied to a string
  colorPc, colorIn, colorOut,
  \* --- the reduction of convertParentElement applied to child results
  reducePc, reduceIn, reduceOut,
  \* --- syncNoteItem: its inputs, its position, the container and note block
  \*     ids it holds, the error its try block left pending, the requests it
  \*     has made, what it saved, its batches and the error it threw
  syncPc, syncIn, containerBlockID, newNoteBlockID, nextId, pending, calls, saved,
  syncBatches, syncError

pipeVars == <<doc, isAnnotation, limit, pc, tasks, settleOrder, prefCache,
              blocks, grouped, batches>>
trimVars == <<trimPc, trimIn, trimOut>>
parseVars == <<parsePc, parseIn, parseOut>>
colorVars == <<colorPc, colorIn, colorOut>>
reduceVars == <<reducePc, reduceIn, reduceOut>>
syncVars == <<syncPc, syncIn, containerBlockID, newNoteBlockID, nextId, pending, calls,
              saved, syncBatches, syncError>>
vars == <<doc, isAnnotation, limit, pc, tasks, settleOrder, prefCache,
          blocks, grouped, batches, trimPc, trimIn, trimOut,
          parsePc, parseIn, parseOut, colorPc, colorIn, colorOut,
          reducePc, reduceIn, reduceOut,
          syncPc, syncIn, containerBlockID, newNoteBlockID, nextId, pending, calls, saved,
          syncBatches, syncError>>

\* The variables of the other functions, and their values while none of them
\* is called
restVars == <<parseVars, colorVars, reduceVars, syncVars>>

\* An error value: its code and the code of its cause; no error
Err(code, cause) == [code |-> code, cause |-> cause]
NoError == Err("", "")

ParseIdle == parsePc = "off" /\ parseIn = <<>> /\ parseOut = <<>>
ColorIdle == colorPc = "off" /\ colorIn = <<>> /\ colorOut = ""
ReduceIdle == reducePc = "off" /\ reduceIn = <<>> /\ reduceOut = <<>>
SyncIdle ==
  /\ syncPc = "off" /\ syncIn = <<>> /\ containerBlockID = ""
  /\ newNoteBlockID = ""
  /\ nextId = 0 /\ pending = NoError /\ calls = <<>> /\ saved = <<>>
  /\ syncBatches = <<>> /\ syncError = NoError
RestIdle == ParseIdle /\ ColorIdle /\ ReduceIdle /\ SyncIdle

----------------------------------------------------------------------------
(* Strings *)

sp == " "
nl == "\n"

\* The characters without an escape in a string are written by their code
\* point
vt == "U+000B"
nbsp == "U+00A0"
bom == "U+FEFF"
ls == "U+2028"
ps == "U+2029"

\* The line terminators of ECMAScript
LineTerminators == {"\n", "\r", ls, ps}

\* The white space of ECMAScript: tab, vertical tab, form feed, space,
\* no-break space, byte order mark and the space separators of Unicode
WhiteSpace ==
  {"\t", vt, "\f", " ", nbsp, bom, "U+1680", "U+2000", "U+2001", "U+2002",
   "U+2003", "U+2004", "U+2005", "U+2006", "U+2007", "U+2008", "U+2009",
   "U+200A", "U+202F", "U+205F", "U+3000"}

\* What String.prototype.trim/trimStart/trimEnd treat as white space: white
\* space and line terminators.
IsSpace(c) == c \in WhiteSpace \cup LineTerminators

RECURSIVE TrimStart(_)
TrimStart(s) ==
  IF s = <<>> THEN <<>>
  ELSE IF IsSpace(Head(s)) THEN TrimStart(Tail(s)) ELSE s

RECURSIVE TrimEnd(_)
TrimEnd(s) ==
  IF s = <<>> THEN <<>>
  ELSE IF IsSpace(s[Len(s)]) THEN TrimEnd(SubSeq(s, 1, Len(s) - 1)) ELSE s

Trim(s) == TrimEnd(TrimStart(s))

\* s.slice(1, -1)
SliceInner(s) == IF Len(s) <= 2 THEN <<>> ELSE SubSeq(s, 2, Len(s) - 1)

\* s.split(/#/): the pieces between the '#' characters, at least one piece.
RECURSIVE SplitFrom(_, _, _)
SplitFrom(s, i, cur) ==
  IF i > Len(s) THEN <<cur>>
  ELSE IF s[i] = "#" THEN <<cur>> \o SplitFrom(s, i + 1, <<>>)
  ELSE SplitFrom(s, i + 1, Append(cur, s[i]))

SplitHash(s) == SplitFrom(s, 1, <<>>)

----------------------------------------------------------------------------
(* Rich text *)

\* A span: its text (or expression), the annotation flags set on it, the
\* annotation color ("" when none) and the link URL (<<>> when none).
Span(kind, content, flags, color, link) ==
  [kind |-> kind, content |-> content, flags |-> flags, color |-> color,
   link |-> link]

TextSpan(content) == Span("text", content, {}, "", <<>>)
CodeSpan(content) == Span("text", content, {"code"}, "", <<>>)
EquationSpan(expr) == Span("equation", expr, {}, "", <<>>)

ApplyUpdater(updater, content) ==
  CASE updater = "trim" -> Trim(content)
    [] updater = "trimStart" -> TrimStart(content)
    [] updater = "trimEnd" -> TrimEnd(content)

\* trimRichText's inner updateContent(index, updater)
updateContent(richText, index, updater) ==
  IF index < 1 \/ index > Len(richText) THEN <<>>
  ELSE LET richTextPart == richText[index] IN
       IF richTextPart.kind # "text" THEN <<richTextPart>>
       ELSE LET content == ApplyUpdater(updater, richTextPart.content) IN
            IF content = <<>> THEN <<>>
            ELSE <<[richTextPart EXCEPT !.content = content]>>

\* A trimRichText that trims both ends of the first and of the last span.
trimRichTextBothEnds(richText) ==
  IF Len(richText) = 0 THEN richText
  ELSE IF Len(richText) = 1 THEN updateContent(richText, 1, "trim")
  ELSE updateContent(richText, 1, "trim")
       \o SubSeq(richText, 2, Len(richText) - 1)
       \o updateContent(richText, Len(richText), "trim")

\* A trimRichText that also drops the interior spans of white space.
trimRichTextDropsBlanks(richText) ==
  IF Len(richText) = 0 THEN richText
  ELSE IF Len(richText) = 1 THEN updateContent(richText, 1, "trim")
  ELSE updateContent(richText, 1, "trimStart")
       \o SelectSeq(SubSeq(richText, 2, Len(richText) - 1),
                    LAMBDA part : part.kind # "text" \/ Trim(part.content) # <<>>)
       \o updateContent(richText, Len(richText), "trimEnd")

trimRichText(richText) ==
  IF Len(richText) = 0 THEN richText
  ELSE IF Len(richText) = 1 THEN updateContent(richText, 1, "trim")
  ELSE LET first == updateContent(richText, 1, "trimStart")
           middle == SubSeq(richText, 2, Len(richText) - 1)
           last == updateContent(richText, Len(richText), "trimEnd")
       IN first \o middle \o last

----------------------------------------------------------------------------
(* Sequences *)

\* Array.prototype.flat() of an array of arrays
RECURSIVE Flat(_)
Flat(ss) ==
  IF Len(ss) = 0 THEN <<>>
  ELSE IF Len(ss) = 1 THEN ss[1]
  ELSE LET half == Len(ss) \div 2
       IN Flat(SubSeq(ss, 1, half)) \o Flat(SubSeq(ss, half + 1, Len(ss)))

SeqsUpTo(S, n) == UNION { [1..k -> S] : k \in 0..n }

\* The first element of seq, or dflt when it has none
FirstOr(seq, dflt) == IF Len(seq) = 0 THEN dflt ELSE seq[1]

----------------------------------------------------------------------------
(* The DOM: a node is a record; a text node has tag "#text". *)

\* The data-annotation attribute of an <img>: absent ("none"), not decodable
\* ("bad") or decoded ("ok") to an annotation key and, when hasColor, a color.
NoData == [state |-> "none", key |-> "", hasColor |-> FALSE, color |-> <<>>]
ImgData(key, hasColor, color) ==
  [state |-> "ok", key |-> key, hasColor |-> hasColor, color |-> color]
BadData == [NoData EXCEPT !.state = "bad"]

\* A node: its tag name, its classes, its inline background color, the
\* annotation data of an image, the href and type properties of an element
\* (empty without the attribute), its text and its child nodes
Txt(s) == [tag |-> "#text", cls |-> {}, bg |-> <<>>, data |-> NoData,
           href |-> <<>>, type |-> "", text |-> s, kids |-> <<>>]
El(tag, cls, kids) == [tag |-> tag, cls |-> cls, bg |-> <<>>, data |-> NoData,
                       href |-> <<>>, type |-> "", text |-> <<>>,
                       kids |-> kids]
\* <a href=...> and an element with a type attribute
Anchor(href, kids) == [El("A", {}, kids) EXCEPT !.href = href]
ElType(tag, type, kids) == [El(tag, {}, kids) EXCEPT !.type = type]
ElBg(tag, cls, bg, kids) == [El(tag, cls, kids) EXCEPT !.bg = bg]
Img(data) == [El("IMG", {}, <<>>) EXCEPT !.data = data]

\* null, where the DOM API returns no node
NoNode == [tag |-> "#null", cls |-> {}, bg |-> <<>>, data |-> NoData,
           href |-> <<>>, type |-> "", text |-> <<>>, kids |-> <<>>]

isTextNode(n) == n.tag = "#text"
isHTMLElement(n) == n.tag \notin {"#text", "#null"}

\* Node.textContent
RECURSIVE textContent(_)
textContent(n) ==
  IF isTextNode(n) THEN n.text
  ELSE Flat([i \in 1..Len(n.kids) |-> textContent(n.kids[i])])

\* The descendants of n in document order, each with its parent's tag and its
\* next sibling.
RECURSIVE Descendants(_)
Descendants(n) ==
  Flat([i \in 1..Len(n.kids) |->
          <<[node |-> n.kids[i],
             parentTag |-> n.tag,
             next |-> IF i < Len(n.kids) THEN n.kids[i + 1] ELSE NoNode]>>
          \o Descendants(n.kids[i])])

NoEntry == [node |-> NoNode, parentTag |-> "", next |-> NoNode]

Matches(n, sel) ==
  /\ isHTMLElement(n)
  /\ IF sel.by = "class" THEN sel.v \in n.cls ELSE n.tag = sel.v

ByClass(c) == [by |-> "class", v |-> c]
ByTag(t) == [by |-> "tag", v |-> t]

\* Element.querySelector(sel), with the match's context
querySelectorEntry(el, sel) ==
  FirstOr(SelectSeq(Descendants(el), LAMBDA e : Matches(e.node, sel)), NoEntry)

querySelector(el, sel) == querySelectorEntry(el, sel).node

\* Element.getElementsByTagName(tag)
getElementsByTagName(el, tag) ==
  SelectSeq(Descendants(el), LAMBDA e : Matches(e.node, ByTag(tag)))

\* The body element of the parsed document
Body(d) == El("BODY", {}, d)

Renderable(n) == isHTMLElement(n) \/ (isTextNode(n) /\ Trim(n.text) # <<>>)

\* findContainer(doc): the first element with renderable children, if any.
findContainer(d) ==
  LET candidates == <<[node |-> Body(d), parentTag |-> "", next |-> NoNode]>>
                      \o Descendants(Body(d))
  IN FirstOr(SelectSeq(candidates,
                       LAMBDA e : /\ isHTMLElement(e.node)
                                  /\ \E i \in 1..Len(e.node.kids) :
                                        Renderable(e.node.kids[i])),
             NoEntry).node

----------------------------------------------------------------------------
(* Characters and letter case *)

\* A character of a string is a UTF-16 code unit. A printable ASCII
\* character but the grave accent, and the characters \t, \n, \f and \r,
\* stand for themselves; any other code unit is named by "U+" and its four
\* hexadecimal digits.
\* The code units 0..127
AsciiCodeUnits == <<
    "U+0000", "U+0001", "U+0002", "U+0003", "U+0004", "U+0005", "U+0006",
    "U+0007", "U+0008", "\t", "\n", "U+000B", "\f", "\r", "U+000E", "U+000F",
    "U+0010", "U+0011", "U+0012", "U+0013", "U+0014", "U+0015", "U+0016",
    "U+0017", "U+0018", "U+0019", "U+001A", "U+001B", "U+001C", "U+001D",
    "U+001E", "U+001F", " ", "!", "\"", "#", "$", "%", "&", "'", "(", ")",
    "*", "+", ",", "-", ".", "/", "0", "1", "2", "3", "4", "5", "6", "7", "8",
    "9", ":", ";", "<", "=", ">", "?", "@", "A", "B", "C", "D", "E", "F", "G",
    "H", "I", "J", "K", "L", "M", "N", "O", "P", "Q", "R", "S", "T", "U", "V",
    "W", "X", "Y", "Z", "[", "\\", "]", "^", "_", "U+0060", "a", "b", "c",
    "d", "e", "f", "g", "h", "i", "j", "k", "l", "m", "n", "o", "p", "q", "r",
    "s", "t", "u", "v", "w", "x", "y", "z", "{", "|", "}", "~", "U+007F" >>

\* The two hexadecimal digits of the numbers 0..255
HexPairs == <<
    "00", "01", "02", "03", "04", "05", "06", "07", "08", "09", "0A", "0B",
    "0C", "0D", "0E", "0F", "10", "11", "12", "13", "14", "15", "16", "17",
    "18", "19", "1A", "1B", "1C", "1D", "1E", "1F", "20", "21", "22", "23",
    "24", "25", "26", "27", "28", "29", "2A", "2B", "2C", "2D", "2E", "2F",
    "30", "31", "32", "33", "34", "35", "36", "37", "38", "39", "3A", "3B",
    "3C", "3D", "3E", "3F", "40", "41", "42", "43", "44", "45", "46", "47",
    "48", "49", "4A", "4B", "4C", "4D", "4E", "4F", "50", "51", "52", "53",
    "54", "55", "56", "57", "58", "59", "5A", "5B", "5C", "5D", "5E", "5F",
    "60", "61", "62", "63", "64", "65", "66", "67", "68", "69", "6A", "6B",
    "6C", "6D", "6E", "6F", "70", "71", "72", "73", "74", "75", "76", "77",
    "78", "79", "7A", "7B", "7C", "7D", "7E", "7F", "80", "81", "82", "83",
    "84", "85", "86", "87", "88", "89", "8A", "8B", "8C", "8D", "8E", "8F",
    "90", "91", "92", "93", "94", "95", "96", "97", "98", "99", "9A", "9B",
    "9C", "9D", "9E", "9F", "A0", "A1", "A2", "A3", "A4", "A5", "A6", "A7",
    "A8", "A9", "AA", "AB", "AC", "AD", "AE", "AF", "B0", "B1", "B2", "B3",
    "B4", "B5", "B6", "B7", "B8", "B9", "BA", "BB", "BC", "BD", "BE", "BF",
    "C0", "C1", "C2", "C3", "C4", "C5", "C6", "C7", "C8", "C9", "CA", "CB",
    "CC", "CD", "CE", "CF", "D0", "D1", "D2", "D3", "D4", "D5", "D6", "D7",
    "D8", "D9", "DA", "DB", "DC", "DD", "DE", "DF", "E0", "E1", "E2", "E3",
    "E4", "E5", "E6", "E7", "E8", "E9", "EA", "EB", "EC", "ED", "EE", "EF",
    "F0", "F1", "F2", "F3", "F4", "F5", "F6", "F7", "F8", "F9", "FA", "FB",
    "FC", "FD", "FE", "FF" >>

CodeUnit(n) ==
  IF n < 128 THEN AsciiCodeUnits[n + 1]
  ELSE "U+" \o HexPairs[(n \div 256) + 1] \o HexPairs[(n % 256) + 1]

\* The code units of a code point: itself, or its surrogate pair
CodePoint(cp) ==
  [k \in 1..(IF cp < 65536 THEN 1 ELSE 2) |->
     CodeUnit(IF cp < 65536 THEN cp
              ELSE IF k = 1 THEN 55296 + ((cp - 65536) \div 1024)
              ELSE 56320 + ((cp - 65536) % 1024))]

\* The case mappings of the Unicode Character Database that
\* String.prototype.toLowerCase and toUpperCase apply whatever the locale.
\* Each four numbers first, last, step, to map the code points first,
\* first + step, ..., last to the code points to, to + step, ...
LowerCaseRuns == <<
    65, 90, 1, 97,  192, 214, 1, 224,  216, 222, 1, 248,  256, 302, 2, 257,
    306, 310, 2, 307,  313, 327, 2, 314,  330, 374, 2, 331,
    376, 376, 1, 255,  377, 381, 2, 378,  385, 385, 1, 595,
    386, 388, 2, 387,  390, 390, 1, 596,  391, 391, 1, 392,
    393, 394, 1, 598,  395, 395, 1, 396,  398, 398, 1, 477,
    399, 399, 1, 601,  400, 400, 1, 603,  401, 401, 1, 402,
    403, 403, 1, 608,  404, 404, 1, 611,  406, 406, 1, 617,
    407, 407, 1, 616,  408, 408, 1, 409,  412, 412, 1, 623,
    413, 413, 1, 626,  415, 415, 1, 629,  416, 420, 2, 417,
    422, 422, 1, 640,  423, 423, 1, 424,  425, 425, 1, 643,
    428, 428, 1, 429,  430, 430, 1, 648,  431, 431, 1, 432,
    433, 434, 1, 650,  435, 437, 2, 436,  439, 439, 1, 658,
    440, 440, 1, 441,  444, 444, 1, 445,  452, 452, 1, 454,
    453, 453, 1, 454,  455, 455, 1, 457,  456, 456, 1, 457,
    458, 458, 1, 460,  459, 475, 2, 460,  478, 494, 2, 479,
    497, 497, 1, 499,  498, 500, 2, 499,  502, 502, 1, 405,
    503, 503, 1, 447,  504, 542, 2, 505,  544, 544, 1, 414,
    546, 562, 2, 547,  570, 570, 1, 11365,  571, 571, 1, 572,
    573, 573, 1, 410,  574, 574, 1, 11366,  577, 577, 1, 578,
    579, 579, 1, 384,  580, 580, 1, 649,  581, 581, 1, 652,
    582, 590, 2, 583,  880, 882, 2, 881,  886, 886, 1, 887,
    895, 895, 1, 1011,  902, 902, 1, 940,  904, 906, 1, 941,
    908, 908, 1, 972,  910, 911, 1, 973,  913, 929, 1, 945,
    931, 939, 1, 963,  975, 975, 1, 983,  984, 1006, 2, 985,
    1012, 1012, 1, 952,  1015, 1015, 1, 1016,  1017, 1017, 1, 1010,
    1018, 1018, 1, 1019,  1021, 1023, 1, 891,  1024, 1039, 1, 1104,
    1040, 1071, 1, 1072,  1120, 1152, 2, 1121,  1162, 1214, 2, 1163,
    1216, 1216, 1, 1231,  1217, 1229, 2, 1218,  1232, 1326, 2, 1233,
    1329, 1366, 1, 1377,  4256, 4293, 1, 11520,  4295, 4295, 1, 11559,
    4301, 4301, 1, 11565,  5024, 5103, 1, 43888,  5104, 5109, 1, 5112,
    7305, 7305, 1, 7306,  7312, 7354, 1, 4304,  7357, 7359, 1, 4349,
    7680, 7828, 2, 7681,  7838, 7838, 1, 223,  7840, 7934, 2, 7841,
    7944, 7951, 1, 7936,  7960, 7965, 1, 7952,  7976, 7983, 1, 7968,
    7992, 7999, 1, 7984,  8008, 8013, 1, 8000,  8025, 8031, 2, 8017,
    8040, 8047, 1, 8032,  8072, 8079, 1, 8064,  8088, 8095, 1, 8080,
    8104, 8111, 1, 8096,  8120, 8121, 1, 8112,  8122, 8123, 1, 8048,
    8124, 8124, 1, 8115,  8136, 8139, 1, 8050,  8140, 8140, 1, 8131,
    8152, 8153, 1, 8144,  8154, 8155, 1, 8054,  8168, 8169, 1, 8160,
    8170, 8171, 1, 8058,  8172, 8172, 1, 8165,  8184, 8185, 1, 8056,
    8186, 8187, 1, 8060,  8188, 8188, 1, 8179,  8486, 8486, 1, 969,
    8490, 8490, 1, 107,  8491, 8491, 1, 229,  8498, 8498, 1, 8526,
    8544, 8559, 1, 8560,  8579, 8579, 1, 8580,  9398, 9423, 1, 9424,
    11264, 11311, 1, 11312,  11360, 11360, 1, 11361,  11362, 11362, 1, 619,
    11363, 11363, 1, 7549,  11364, 11364, 1, 637,  11367, 11371, 2, 11368,
    11373, 11373, 1, 593,  11374, 11374, 1, 625,  11375, 11375, 1, 592,
    11376, 11376, 1, 594,  11378, 11378, 1, 11379,  11381, 11381, 1, 11382,
    11390, 11391, 1, 575,  11392, 11490, 2, 11393,  11499, 11501, 2, 11500,
    11506, 11506, 1, 11507,  42560, 42604, 2, 42561,  42624, 42650, 2, 42625,
    42786, 42798, 2, 42787,  42802, 42862, 2, 42803,  42873, 42875, 2, 42874,
    42877, 42877, 1, 7545,  42878, 42886, 2, 42879,  42891, 42891, 1, 42892,
    42893, 42893, 1, 613,  42896, 42898, 2, 42897,  42902, 42920, 2, 42903,
    42922, 42922, 1, 614,  42923, 42923, 1, 604,  42924, 42924, 1, 609,
    42925, 42925, 1, 620,  42926, 42926, 1, 618,  42928, 42928, 1, 670,
    42929, 42929, 1, 647,  42930, 42930, 1, 669,  42931, 42931, 1, 43859,
    42932, 42946, 2, 42933,  42948, 42948, 1, 42900,  42949, 42949, 1, 642,
    42950, 42950, 1, 7566,  42951, 42953, 2, 42952,  42955, 42955, 1, 612,
    42956, 42970, 2, 42957,  42972, 42972, 1, 411,  42997, 42997, 1, 42998,
    65313, 65338, 1, 65345,  66560, 66599, 1, 66600,  66736, 66771, 1, 66776,
    66928, 66938, 1, 66967,  66940, 66954, 1, 66979,  66956, 66962, 1, 66995,
    66964, 66965, 1, 67003,  68736, 68786, 1, 68800,  68944, 68965, 1, 68976,
    71840, 71871, 1, 71872,  93760, 93791, 1, 93792,  93856, 93880, 1, 93883,
    125184, 125217, 1, 125218 >>

UpperCaseRuns == <<
    97, 122, 1, 65,  181, 181, 1, 924,  224, 246, 1, 192,  248, 254, 1, 216,
    255, 255, 1, 376,  257, 303, 2, 256,  305, 305, 1, 73,  307, 311, 2, 306,
    314, 328, 2, 313,  331, 375, 2, 330,  378, 382, 2, 377,  383, 383, 1, 83,
    384, 384, 1, 579,  387, 389, 2, 386,  392, 392, 1, 391,
    396, 396, 1, 395,  402, 402, 1, 401,  405, 405, 1, 502,
    409, 409, 1, 408,  410, 410, 1, 573,  411, 411, 1, 42972,
    414, 414, 1, 544,  417, 421, 2, 416,  424, 424, 1, 423,
    429, 429, 1, 428,  432, 432, 1, 431,  436, 438, 2, 435,
    441, 441, 1, 440,  445, 445, 1, 444,  447, 447, 1, 503,
    453, 453, 1, 452,  454, 454, 1, 452,  456, 456, 1, 455,
    457, 457, 1, 455,  459, 459, 1, 458,  460, 460, 1, 458,
    462, 476, 2, 461,  477, 477, 1, 398,  479, 495, 2, 478,
    498, 498, 1, 497,  499, 499, 1, 497,  501, 501, 1, 500,
    505, 543, 2, 504,  547, 563, 2, 546,  572, 572, 1, 571,
    575, 576, 1, 11390,  578, 578, 1, 577,  583, 591, 2, 582,
    592, 592, 1, 11375,  593, 593, 1, 11373,  594, 594, 1, 11376,
    595, 595, 1, 385,  596, 596, 1, 390,  598, 599, 1, 393,
    601, 601, 1, 399,  603, 603, 1, 400,  604, 604, 1, 42923,
    608, 608, 1, 403,  609, 609, 1, 42924,  611, 611, 1, 404,
    612, 612, 1, 42955,  613, 613, 1, 42893,  614, 614, 1, 42922,
    616, 616, 1, 407,  617, 617, 1, 406,  618, 618, 1, 42926,
    619, 619, 1, 11362,  620, 620, 1, 42925,  623, 623, 1, 412,
    625, 625, 1, 11374,  626, 626, 1, 413,  629, 629, 1, 415,
    637, 637, 1, 11364,  640, 640, 1, 422,  642, 642, 1, 42949,
    643, 643, 1, 425,  647, 647, 1, 42929,  648, 648, 1, 430,
    649, 649, 1, 580,  650, 651, 1, 433,  652, 652, 1, 581,
    658, 658, 1, 439,  669, 669, 1, 42930,  670, 670, 1, 42928,
    837, 837, 1, 921,  881, 883, 2, 880,  887, 887, 1, 886,
    891, 893, 1, 1021,  940, 940, 1, 902,  941, 943, 1, 904,
    945, 961, 1, 913,  962, 962, 1, 931,  963, 971, 1, 931,
    972, 972, 1, 908,  973, 974, 1, 910,  976, 976, 1, 914,
    977, 977, 1, 920,  981, 981, 1, 934,  982, 982, 1, 928,
    983, 983, 1, 975,  985, 1007, 2, 984,  1008, 1008, 1, 922,
    1009, 1009, 1, 929,  1010, 1010, 1, 1017,  1011, 1011, 1, 895,
    1013, 1013, 1, 917,  1016, 1016, 1, 1015,  1019, 1019, 1, 1018,
    1072, 1103, 1, 1040,  1104, 1119, 1, 1024,  1121, 1153, 2, 1120,
    1163, 1215, 2, 1162,  1218, 1230, 2, 1217,  1231, 1231, 1, 1216,
    1233, 1327, 2, 1232,  1377, 1414, 1, 1329,  4304, 4346, 1, 7312,
    4349, 4351, 1, 7357,  5112, 5117, 1, 5104,  7296, 7296, 1, 1042,
    7297, 7297, 1, 1044,  7298, 7298, 1, 1054,  7299, 7300, 1, 1057,
    7301, 7301, 1, 1058,  7302, 7302, 1, 1066,  7303, 7303, 1, 1122,
    7304, 7304, 1, 42570,  7306, 7306, 1, 7305,  7545, 7545, 1, 42877,
    7549, 7549, 1, 11363,  7566, 7566, 1, 42950,  7681, 7829, 2, 7680,
    7835, 7835, 1, 7776,  7841, 7935, 2, 7840,  7936, 7943, 1, 7944,
    7952, 7957, 1, 7960,  7968, 7975, 1, 7976,  7984, 7991, 1, 7992,
    8000, 8005, 1, 8008,  8017, 8023, 2, 8025,  8032, 8039, 1, 8040,
    8048, 8049, 1, 8122,  8050, 8053, 1, 8136,  8054, 8055, 1, 8154,
    8056, 8057, 1, 8184,  8058, 8059, 1, 8170,  8060, 8061, 1, 8186,
    8112, 8113, 1, 8120,  8126, 8126, 1, 921,  8144, 8145, 1, 8152,
    8160, 8161, 1, 8168,  8165, 8165, 1, 8172,  8526, 8526, 1, 8498,
    8560, 8575, 1, 8544,  8580, 8580, 1, 8579,  9424, 9449, 1, 9398,
    11312, 11359, 1, 11264,  11361, 11361, 1, 11360,  11365, 11365, 1, 570,
    11366, 11366, 1, 574,  11368, 11372, 2, 11367,  11379, 11379, 1, 11378,
    11382, 11382, 1, 11381,  11393, 11491, 2, 11392,  11500, 11502, 2, 11499,
    11507, 11507, 1, 11506,  11520, 11557, 1, 4256,  11559, 11559, 1, 4295,
    11565, 11565, 1, 4301,  42561, 42605, 2, 42560,  42625, 42651, 2, 42624,
    42787, 42799, 2, 42786,  42803, 42863, 2, 42802,  42874, 42876, 2, 42873,
    42879, 42887, 2, 42878,  42892, 42892, 1, 42891,  42897, 42899, 2, 42896,
    42900, 42900, 1, 42948,  42903, 42921, 2, 42902,  42933, 42947, 2, 42932,
    42952, 42954, 2, 42951,  42957, 42971, 2, 42956,  42998, 42998, 1, 42997,
    43859, 43859, 1, 42931,  43888, 43967, 1, 5024,  65345, 65370, 1, 65313,
    66600, 66639, 1, 66560,  66776, 66811, 1, 66736,  66967, 66977, 1, 66928,
    66979, 66993, 1, 66940,  66995, 67001, 1, 66956,  67003, 67004, 1, 66964,
    68800, 68850, 1, 68736,  68976, 68997, 1, 68944,  71872, 71903, 1, 71840,
    93792, 93823, 1, 93760,  93883, 93907, 1, 93856,
    125218, 125251, 1, 125184 >>

\* toUpperCase: the code points with an upper case of several code points
\* (SpecialCasing), such as that of the sharp s, SS. Each four numbers are
\* a code point and the up to three code points of its upper case, 0 where
\* there is none
SpecialUpperCase == <<
    223, 83, 83, 0,  329, 700, 78, 0,  496, 74, 780, 0,  912, 921, 776, 769,
    944, 933, 776, 769,  1415, 1333, 1362, 0,  7830, 72, 817, 0,
    7831, 84, 776, 0,  7832, 87, 778, 0,  7833, 89, 778, 0,
    7834, 65, 702, 0,  8016, 933, 787, 0,  8018, 933, 787, 768,
    8020, 933, 787, 769,  8022, 933, 787, 834,  8064, 7944, 921, 0,
    8065, 7945, 921, 0,  8066, 7946, 921, 0,  8067, 7947, 921, 0,
    8068, 7948, 921, 0,  8069, 7949, 921, 0,  8070, 7950, 921, 0,
    8071, 7951, 921, 0,  8072, 7944, 921, 0,  8073, 7945, 921, 0,
    8074, 7946, 921, 0,  8075, 7947, 921, 0,  8076, 7948, 921, 0,
    8077, 7949, 921, 0,  8078, 7950, 921, 0,  8079, 7951, 921, 0,
    8080, 7976, 921, 0,  8081, 7977, 921, 0,  8082, 7978, 921, 0,
    8083, 7979, 921, 0,  8084, 7980, 921, 0,  8085, 7981, 921, 0,
    8086, 7982, 921, 0,  8087, 7983, 921, 0,  8088, 7976, 921, 0,
    8089, 7977, 921, 0,  8090, 7978, 921, 0,  8091, 7979, 921, 0,
    8092, 7980, 921, 0,  8093, 7981, 921, 0,  8094, 7982, 921, 0,
    8095, 7983, 921, 0,  8096, 8040, 921, 0,  8097, 8041, 921, 0,
    8098, 8042, 921, 0,  8099, 8043, 921, 0,  8100, 8044, 921, 0,
    8101, 8045, 921, 0,  8102, 8046, 921, 0,  8103, 8047, 921, 0,
    8104, 8040, 921, 0,  8105, 8041, 921, 0,  8106, 8042, 921, 0,
    8107, 8043, 921, 0,  8108, 8044, 921, 0,  8109, 8045, 921, 0,
    8110, 8046, 921, 0,  8111, 8047, 921, 0,  8114, 8122, 921, 0,
    8115, 913, 921, 0,  8116, 902, 921, 0,  8118, 913, 834, 0,
    8119, 913, 834, 921,  8124, 913, 921, 0,  8130, 8138, 921, 0,
    8131, 919, 921, 0,  8132, 905, 921, 0,  8134, 919, 834, 0,
    8135, 919, 834, 921,  8140, 919, 921, 0,  8146, 921, 776, 768,
    8147, 921, 776, 769,  8150, 921, 834, 0,  8151, 921, 776, 834,
    8162, 933, 776, 768,  8163, 933, 776, 769,  8164, 929, 787, 0,
    8166, 933, 834, 0,  8167, 933, 776, 834,  8178, 8186, 921, 0,
    8179, 937, 921, 0,  8180, 911, 921, 0,  8182, 937, 834, 0,
    8183, 937, 834, 921,  8188, 937, 921, 0,  64256, 70, 70, 0,
    64257, 70, 73, 0,  64258, 70, 76, 0,  64259, 70, 70, 73,
    64260, 70, 70, 76,  64261, 83, 84, 0,  64262, 83, 84, 0,
    64275, 1348, 1350, 0,  64276, 1348, 1333, 0,  64277, 1348, 1339, 0,
    64278, 1358, 1350, 0,  64279, 1348, 1341, 0 >>

\* The code points that Final_Sigma looks for around a capital sigma: the
\* cased ones that are not case-ignorable, and the case-ignorable ones, as
\* ranges: each two numbers are the first and the last code point of one
CasedRanges == <<
    65, 90,  97, 122,  170, 170,  181, 181,  186, 186,  192, 214,  216, 246,
    248, 442,  444, 447,  452, 659,  662, 687,  880, 883,  886, 887,
    891, 893,  895, 895,  902, 902,  904, 906,  908, 908,  910, 929,
    931, 1013,  1015, 1153,  1162, 1327,  1329, 1366,  1376, 1416,
    4256, 4293,  4295, 4295,  4301, 4301,  4304, 4346,  4349, 4351,
    5024, 5109,  5112, 5117,  7296, 7306,  7312, 7354,  7357, 7359,
    7424, 7467,  7531, 7543,  7545, 7578,  7680, 7957,  7960, 7965,
    7968, 8005,  8008, 8013,  8016, 8023,  8025, 8025,  8027, 8027,
    8029, 8029,  8031, 8061,  8064, 8116,  8118, 8124,  8126, 8126,
    8130, 8132,  8134, 8140,  8144, 8147,  8150, 8155,  8160, 8172,
    8178, 8180,  8182, 8188,  8450, 8450,  8455, 8455,  8458, 8467,
    8469, 8469,  8473, 8477,  8484, 8484,  8486, 8486,  8488, 8488,
    8490, 8493,  8495, 8500,  8505, 8505,  8508, 8511,  8517, 8521,
    8526, 8526,  8544, 8575,  8579, 8580,  9398, 9449,  11264, 11387,
    11390, 11492,  11499, 11502,  11506, 11507,  11520, 11557,  11559, 11559,
    11565, 11565,  42560, 42605,  42624, 42651,  42786, 42863,  42865, 42887,
    42891, 42894,  42896, 42972,  42997, 42998,  43002, 43002,  43824, 43866,
    43872, 43880,  43888, 43967,  64256, 64262,  64275, 64279,  65313, 65338,
    65345, 65370,  66560, 66639,  66736, 66771,  66776, 66811,  66928, 66938,
    66940, 66954,  66956, 66962,  66964, 66965,  66967, 66977,  66979, 66993,
    66995, 67001,  67003, 67004,  68736, 68786,  68800, 68850,  68944, 68965,
    68976, 68997,  71840, 71903,  93760, 93823,  93856, 93880,  93883, 93907,
    119808, 119892,  119894, 119964,  119966, 119967,  119970, 119970,
    119973, 119974,  119977, 119980,  119982, 119993,  119995, 119995,
    119997, 120003,  120005, 120069,  120071, 120074,  120077, 120084,
    120086, 120092,  120094, 120121,  120123, 120126,  120128, 120132,
    120134, 120134,  120138, 120144,  120146, 120485,  120488, 120512,
    120514, 120538,  120540, 120570,  120572, 120596,  120598, 120628,
    120630, 120654,  120656, 120686,  120688, 120712,  120714, 120744,
    120746, 120770,  120772, 120779,  122624, 122633,  122635, 122654,
    122661, 122666,  125184, 125251,  127280, 127305,  127312, 127337,
    127344, 127369 >>

CaseIgnorableRanges == <<
    39, 39,  46, 46,  58, 58,  94, 94,  96, 96,  168, 168,  173, 173,
    175, 175,  180, 180,  183, 184,  688, 879,  884, 885,  890, 890,
    900, 901,  903, 903,  1155, 1161,  1369, 1369,  1375, 1375,  1425, 1469,
    1471, 1471,  1473, 1474,  1476, 1477,  1479, 1479,  1524, 1524,
    1536, 1541,  1552, 1562,  1564, 1564,  1600, 1600,  1611, 1631,
    1648, 1648,  1750, 1757,  1759, 1768,  1770, 1773,  1807, 1807,
    1809, 1809,  1840, 1866,  1958, 1968,  2027, 2037,  2042, 2042,
    2045, 2045,  2070, 2093,  2137, 2139,  2184, 2184,  2192, 2193,
    2199, 2207,  2249, 2306,  2362, 2362,  2364, 2364,  2369, 2376,
    2381, 2381,  2385, 2391,  2402, 2403,  2417, 2417,  2433, 2433,
    2492, 2492,  2497, 2500,  2509, 2509,  2530, 2531,  2558, 2558,
    2561, 2562,  2620, 2620,  2625, 2626,  2631, 2632,  2635, 2637,
    2641, 2641,  2672, 2673,  2677, 2677,  2689, 2690,  2748, 2748,
    2753, 2757,  2759, 2760,  2765, 2765,  2786, 2787,  2810, 2815,
    2817, 2817,  2876, 2876,  2879, 2879,  2881, 2884,  2893, 2893,
    2901, 2902,  2914, 2915,  2946, 2946,  3008, 3008,  3021, 3021,
    3072, 3072,  3076, 3076,  3132, 3132,  3134, 3136,  3142, 3144,
    3146, 3149,  3157, 3158,  3170, 3171,  3201, 3201,  3260, 3260,
    3263, 3263,  3270, 3270,  3276, 3277,  3298, 3299,  3328, 3329,
    3387, 3388,  3393, 3396,  3405, 3405,  3426, 3427,  3457, 3457,
    3530, 3530,  3538, 3540,  3542, 3542,  3633, 3633,  3636, 3642,
    3654, 3662,  3761, 3761,  3764, 3772,  3782, 3782,  3784, 3790,
    3864, 3865,  3893, 3893,  3895, 3895,  3897, 3897,  3953, 3966,
    3968, 3972,  3974, 3975,  3981, 3991,  3993, 4028,  4038, 4038,
    4141, 4144,  4146, 4151,  4153, 4154,  4157, 4158,  4184, 4185,
    4190, 4192,  4209, 4212,  4226, 4226,  4229, 4230,  4237, 4237,
    4253, 4253,  4348, 4348,  4957, 4959,  5906, 5908,  5938, 5939,
    5970, 5971,  6002, 6003,  6068, 6069,  6071, 6077,  6086, 6086,
    6089, 6099,  6103, 6103,  6109, 6109,  6155, 6159,  6211, 6211,
    6277, 6278,  6313, 6313,  6432, 6434,  6439, 6440,  6450, 6450,
    6457, 6459,  6679, 6680,  6683, 6683,  6742, 6742,  6744, 6750,
    6752, 6752,  6754, 6754,  6757, 6764,  6771, 6780,  6783, 6783,
    6823, 6823,  6832, 6877,  6880, 6891,  6912, 6915,  6964, 6964,
    6966, 6970,  6972, 6972,  6978, 6978,  7019, 7027,  7040, 7041,
    7074, 7077,  7080, 7081,  7083, 7085,  7142, 7142,  7144, 7145,
    7149, 7149,  7151, 7153,  7212, 7219,  7222, 7223,  7288, 7293,
    7376, 7378,  7380, 7392,  7394, 7400,  7405, 7405,  7412, 7412,
    7416, 7417,  7468, 7530,  7544, 7544,  7579, 7679,  8125, 8125,
    8127, 8129,  8141, 8143,  8157, 8159,  8173, 8175,  8189, 8190,
    8203, 8207,  8216, 8217,  8228, 8228,  8231, 8231,  8234, 8238,
    8288, 8292,  8294, 8303,  8305, 8305,  8319, 8319,  8336, 8348,
    8400, 8432,  11388, 11389,  11503, 11505,  11631, 11631,  11647, 11647,
    11744, 11775,  11823, 11823,  12293, 12293,  12330, 12333,  12337, 12341,
    12347, 12347,  12441, 12446,  12540, 12542,  40981, 40981,  42232, 42237,
    42508, 42508,  42607, 42610,  42612, 42621,  42623, 42623,  42652, 42655,
    42736, 42737,  42752, 42785,  42864, 42864,  42888, 42890,  42993, 42996,
    43000, 43001,  43010, 43010,  43014, 43014,  43019, 43019,  43045, 43046,
    43052, 43052,  43204, 43205,  43232, 43249,  43263, 43263,  43302, 43309,
    43335, 43345,  43392, 43394,  43443, 43443,  43446, 43449,  43452, 43453,
    43471, 43471,  43493, 43494,  43561, 43566,  43569, 43570,  43573, 43574,
    43587, 43587,  43596, 43596,  43632, 43632,  43644, 43644,  43696, 43696,
    43698, 43700,  43703, 43704,  43710, 43711,  43713, 43713,  43741, 43741,
    43756, 43757,  43763, 43764,  43766, 43766,  43867, 43871,  43881, 43883,
    44005, 44005,  44008, 44008,  44013, 44013,  64286, 64286,  64434, 64450,
    65024, 65039,  65043, 65043,  65056, 65071,  65106, 65106,  65109, 65109,
    65279, 65279,  65287, 65287,  65294, 65294,  65306, 65306,  65342, 65342,
    65344, 65344,  65392, 65392,  65438, 65439,  65507, 65507,  65529, 65531,
    66045, 66045,  66272, 66272,  66422, 66426,  67456, 67461,  67463, 67504,
    67506, 67514,  68097, 68099,  68101, 68102,  68108, 68111,  68152, 68154,
    68159, 68159,  68325, 68326,  68900, 68903,  68942, 68942,  68969, 68973,
    68975, 68975,  69291, 69292,  69317, 69317,  69370, 69375,  69446, 69456,
    69506, 69509,  69633, 69633,  69688, 69702,  69744, 69744,  69747, 69748,
    69759, 69761,  69811, 69814,  69817, 69818,  69821, 69821,  69826, 69826,
    69837, 69837,  69888, 69890,  69927, 69931,  69933, 69940,  70003, 70003,
    70016, 70017,  70070, 70078,  70089, 70092,  70095, 70095,  70191, 70193,
    70196, 70196,  70198, 70199,  70206, 70206,  70209, 70209,  70367, 70367,
    70371, 70378,  70400, 70401,  70459, 70460,  70464, 70464,  70502, 70508,
    70512, 70516,  70587, 70592,  70606, 70606,  70608, 70608,  70610, 70610,
    70625, 70626,  70712, 70719,  70722, 70724,  70726, 70726,  70750, 70750,
    70835, 70840,  70842, 70842,  70847, 70848,  70850, 70851,  71090, 71093,
    71100, 71101,  71103, 71104,  71132, 71133,  71219, 71226,  71229, 71229,
    71231, 71232,  71339, 71339,  71341, 71341,  71344, 71349,  71351, 71351,
    71453, 71453,  71455, 71455,  71458, 71461,  71463, 71467,  71727, 71735,
    71737, 71738,  71995, 71996,  71998, 71998,  72003, 72003,  72148, 72151,
    72154, 72155,  72160, 72160,  72193, 72202,  72243, 72248,  72251, 72254,
    72263, 72263,  72273, 72278,  72281, 72283,  72330, 72342,  72344, 72345,
    72544, 72544,  72546, 72548,  72550, 72550,  72752, 72758,  72760, 72765,
    72767, 72767,  72850, 72871,  72874, 72880,  72882, 72883,  72885, 72886,
    73009, 73014,  73018, 73018,  73020, 73021,  73023, 73029,  73031, 73031,
    73104, 73105,  73109, 73109,  73111, 73111,  73177, 73177,  73459, 73460,
    73472, 73473,  73526, 73530,  73536, 73536,  73538, 73538,  73562, 73562,
    78896, 78912,  78919, 78933,  90398, 90409,  90413, 90415,  92912, 92916,
    92976, 92982,  92992, 92995,  93504, 93506,  93547, 93548,  94031, 94031,
    94095, 94111,  94176, 94177,  94179, 94180,  94194, 94195,
    110576, 110579,  110581, 110587,  110589, 110590,  113821, 113822,
    113824, 113827,  118528, 118573,  118576, 118598,  119143, 119145,
    119155, 119170,  119173, 119179,  119210, 119213,  119362, 119364,
    121344, 121398,  121403, 121452,  121461, 121461,  121476, 121476,
    121499, 121503,  121505, 121519,  122880, 122886,  122888, 122904,
    122907, 122913,  122915, 122916,  122918, 122922,  122928, 122989,
    123023, 123023,  123184, 123197,  123566, 123566,  123628, 123631,
    124139, 124143,  124398, 124399,  124643, 124643,  124646, 124646,
    124654, 124655,  124661, 124661,  124671, 124671,  125136, 125142,
    125252, 125259,  127995, 127999,  917505, 917505,  917536, 917631,
    917760, 917999 >>

RunPairs(runs) ==
  UNION { { [k \in 1..2 |-> CodePoint(cp + (k - 1) * (runs[j + 3] - runs[j]))] :
              cp \in { n \in runs[j]..runs[j + 1] :
                         (n - runs[j]) % runs[j + 2] = 0 } } :
          j \in { i \in 1..Len(runs) : i % 4 = 1 } }

RangeSet(ranges) ==
  UNION { { CodePoint(cp) : cp \in ranges[j]..ranges[j + 1] } :
          j \in { i \in 1..Len(ranges) : i % 2 = 1 } }

\* The capital I with a dot above (U+0130) is the one code point whose lower
\* case has two code units: i and the combining dot above
LowerCasePairs ==
  RunPairs(LowerCaseRuns) \cup { <<<<"U+0130">>, <<"i", "U+0307">>>> }

UpperCasePairs ==
  RunPairs(UpperCaseRuns)
    \cup { [k \in 1..2 |->
              [i \in 1..(IF k = 1 THEN 1
                         ELSE Cardinality({ m \in 1..3 :
                                SpecialUpperCase[j + m] # 0 })) |->
                 CodeUnit(SpecialUpperCase[j + (k - 1) * i])]] :
             j \in { i \in 1..Len(SpecialUpperCase) : i % 4 = 1 } }

CaseMapping(pairs) ==
  [u \in { p[1] : p \in pairs } |-> (CHOOSE p \in pairs : p[1] = u)[2]]

toLowerCaseMapping == CaseMapping(LowerCasePairs)
toUpperCaseMapping == CaseMapping(UpperCasePairs)
Cased == RangeSet(CasedRanges)
CaseIgnorable == RangeSet(CaseIgnorableRanges)

\* The case of the code point u by the mapping, u itself where it has none
MappedBy(mapping, u) == IF u \in DOMAIN mapping THEN mapping[u] ELSE u

\* String.prototype.toLowerCase on a string of the one code unit c
toLowerCaseChar(c) == MappedBy(toLowerCaseMapping, <<c>>)

\* String.prototype.toUpperCase on a string of the one code unit c
toUpperCaseChar(c) == MappedBy(toUpperCaseMapping, <<c>>)

\* The number of code units of the code point of the set at s[j] when looking
\* forward (step 1) or backward (step -1), 0 when there is none
WidthIn(set, s, j, step) ==
  IF j + step \in 1..Len(s)
     /\ <<s[IF step = 1 THEN j ELSE j - 1],
          s[IF step = 1 THEN j + 1 ELSE j]>> \in set
  THEN 2
  ELSE IF <<s[j]>> \in set THEN 1 ELSE 0

\* Final_Sigma: before the sigma at s[i] comes a cased letter and then
\* case-ignorable characters only, and after it no cased letter follows
\* case-ignorable characters only
RECURSIVE CasedBeyond(_, _, _, _)
CasedBeyond(s, j, step, ignorable) ==
  IF ignorable = 0 THEN WidthIn(Cased, s, j, step) > 0
  ELSE IF j + step * ignorable \notin 1..Len(s) THEN FALSE
  ELSE CasedBeyond(s, j + step * ignorable, step,
                   WidthIn(CaseIgnorable, s, j + step * ignorable, step))

CasedBefore(s, j) ==
  j >= 1 /\ CasedBeyond(s, j, -1, WidthIn(CaseIgnorable, s, j, -1))

CasedAfter(s, j) ==
  j <= Len(s) /\ CasedBeyond(s, j, 1, WidthIn(CaseIgnorable, s, j, 1))

Sigma == "U+03A3"
FinalSmallSigma == "U+03C2"

Final_Sigma(s, i) == CasedBefore(s, i - 1) /\ ~CasedAfter(s, i + 1)

\* The number of code units of the code point at s[i]: 2 for a surrogate
\* pair that the mapping changes, as no mapping changes a lone surrogate
CodePointWidth(mapping, s, i) ==
  IF i < Len(s) /\ SubSeq(s, i, i + 1) \in DOMAIN mapping THEN 2 ELSE 1

\* String.prototype.toLowerCase from s[i] on, width being the number of code
\* units of the code point at s[i]: a capital sigma at the end of a word
\* becomes the final sigma
RECURSIVE toLowerCaseFrom(_, _)
toLowerCaseCodePoint(s, i, width) ==
  (IF s[i] = Sigma /\ Final_Sigma(s, i) THEN <<FinalSmallSigma>>
   ELSE MappedBy(toLowerCaseMapping, SubSeq(s, i, i + width - 1)))
    \o toLowerCaseFrom(s, i + width)

toLowerCaseFrom(s, i) ==
  IF i > Len(s) THEN <<>>
  ELSE toLowerCaseCodePoint(s, i, CodePointWidth(toLowerCaseMapping, s, i))

toLowerCase(s) == toLowerCaseFrom(s, 1)

\* String.prototype.toUpperCase from s[i] on
RECURSIVE toUpperCaseFrom(_, _)
toUpperCaseCodePoint(s, i, width) ==
  MappedBy(toUpperCaseMapping, SubSeq(s, i, i + width - 1))
    \o toUpperCaseFrom(s, i + width)

toUpperCaseFrom(s, i) ==
  IF i > Len(s) THEN <<>>
  ELSE toUpperCaseCodePoint(s, i, CodePointWidth(toUpperCaseMapping, s, i))

toUpperCase(s) == toUpperCaseFrom(s, 1)

----------------------------------------------------------------------------
(* Colors *)

colorMap == {
    <<<<"#", "f", "f", "d", "4", "0", "0">>, "yellow_background">>,
    <<<<"#", "f", "f", "6", "6", "6", "6">>, "red_background">>,
    <<<<"#", "f", "f", "b", "4", "3", "7">>, "orange_background">>,
    <<<<"#", "5", "f", "f", "0", "3", "6">>, "green_background">>,
    <<<<"#", "5", "0", "c", "8", "e", "5">>, "blue_background">>,
    <<<<"#", "a", "2", "8", "a", "e", "5">>, "purple_background">>,
    <<<<"#", "e", "5", "6", "e", "e", "e">>, "pink_background">>,
    <<<<"#", "a", "a", "a", "a", "a", "a">>, "gray_background">>,
    <<<<"r", "g", "b", "(", "2", "5", "5", ",", sp, "2", "1", "2", ",", sp, "0", ")">>, "yellow_background">>,
    <<<<"r", "g", "b", "(", "2", "5", "5", ",", sp, "1", "0", "2", ",", sp, "1", "0", "2", ")">>, "red_background">>,
    <<<<"r", "g", "b", "(", "2", "5", "5", ",", sp, "1", "8", "0", ",", sp, "5", "5", ")">>, "orange_background">>,
    <<<<"r", "g", "b", "(", "9", "5", ",", sp, "2", "4", "0", ",", sp, "5", "4", ")">>, "green_background">>,
    <<<<"r", "g", "b", "(", "8", "0", ",", sp, "2", "0", "0", ",", sp, "2", "2", "9", ")">>, "blue_background">>,
    <<<<"r", "g", "b", "(", "1", "6", "2", ",", sp, "1", "3", "8", ",", sp, "2", "2", "9", ")">>, "purple_background">>,
    <<<<"r", "g", "b", "(", "2", "2", "9", ",", sp, "1", "1", "0", ",", sp, "2", "3", "8", ")">>, "pink_background">>,
    <<<<"r", "g", "b", "(", "1", "7", "0", ",", sp, "1", "7", "0", ",", sp, "1", "7", "0", ")">>, "gray_background">> }

\* The properties colorMap, an object literal, inherits from
\* Object.prototype under a name in lower case, and their values, which are
\* not strings
sConstructor == <<"c", "o", "n", "s", "t", "r", "u", "c", "t", "o", "r">>
sProto == <<"_", "_", "p", "r", "o", "t", "o", "_", "_">>
inheritedProperties == {
    <<sConstructor, "function Object">>,
    <<sProto, "Object.prototype">> }

\* getNotionColorFromHex(hexColor), for a string hexColor:
\* colorMap[normalizedColor] || 'yellow_background'
\* The value of the entries, the default when there is none
ValueOr(entries, default) ==
  IF entries = {} THEN default ELSE (CHOOSE e \in entries : TRUE)[2]

getNotionColorFromHex(hexColor) ==
  LET normalizedColor == Trim(toLowerCase(hexColor))
  IN ValueOr({ e \in colorMap \cup inheritedProperties :
                 e[1] = normalizedColor },
             "yellow_background")

\* Removes every white space character: the color lookup of the highlight
\* path ignores case and white space.
RECURSIVE StripSpaces(_)
StripSpaces(s) ==
  IF s = <<>> THEN <<>>
  ELSE IF IsSpace(Head(s)) THEN StripSpaces(Tail(s))
  ELSE <<Head(s)>> \o StripSpaces(Tail(s))

\* getNotionColor(element): the token of the element's inline background
\* color, "" (falsy) when it has none.
getNotionColor(el) ==
  IF el.bg = <<>> THEN ""
  ELSE LET key == StripSpaces(toLowerCase(el.bg))
       IN ValueOr({ e \in colorMap : StripSpaces(e[1]) = key },
                  "yellow_background")

----------------------------------------------------------------------------
(* Blocks *)

\* A block object: its type, its rich text, its color ("" when none), its
\* children (hasChildren is FALSE when the key is absent) and, for an
\* external image, its URL.
Blk(type, richText, color, hasChildren, children, url) ==
  [type |-> type, rich_text |-> richText, color |-> color,
   hasChildren |-> hasChildren, children |-> children, url |-> url]

\* JavaScript's undefined, where a block is expected
Undefined == Blk("undefined", <<>>, "", FALSE, <<>>, <<>>)

BlockTypes == {"paragraph", "heading_1", "heading_2", "heading_3",
               "bulleted_list_item", "numbered_list_item", "quote", "code",
               "callout", "divider", "image"}

BLOCKS_SUPPORTING_CHILDREN ==
  {"bulleted_list_item", "numbered_list_item", "paragraph", "quote"}

\* A variant in which every block type takes children
doesAnyBlockSupportChildren(blockType) == blockType \in BlockTypes

doesBlockSupportChildren(blockType) == blockType \in BLOCKS_SUPPORTING_CHILDREN

paragraphBlock(richText) == Blk("paragraph", richText, "", FALSE, <<>>, <<>>)

Callout(content, color) ==
  Blk("callout", <<TextSpan(content)>>, color, FALSE, <<>>, <<>>)

Divider == Blk("divider", <<>>, "", FALSE, <<>>, <<>>)

ExternalImage(url) == Blk("image", <<>>, "", FALSE, <<>>, url)

sFiller == <<"F", "i", "l", "l", "e", "r">>

createFillerBlocks ==
  << Callout(sFiller, "yellow_background"),
     paragraphBlock(<<TextSpan(sFiller)>>),
     Divider >>

sEmpty == <<"E", "m", "p", "t", "y">>
sNoAnnotation == <<"N", "o", sp, "a", "n", "n", "o", "t", "a", "t", "i", "o",
                   "n", sp, "p", "r", "o", "v", "i", "d", "e", "d">>

createEmptyAnnotation ==
  << Callout(sEmpty, "yellow_background"),
     paragraphBlock(<<TextSpan(sNoAnnotation)>>),
     Divider >>

----------------------------------------------------------------------------
(* parseNode *)

Parsed(type, blockType, flags, color, link, expression, element) ==
  [type |-> type, blockType |-> blockType,
   supportsChildren |-> doesBlockSupportChildren(blockType),
   flags |-> flags, color |-> color, link |-> link,
   expression |-> expression, element |-> element]

NoParsed == Parsed("none", "", {}, "", <<>>, <<>>, NoNode)

\* getAnnotations(element): the formatting flags the tag name stands for and
\* the color of its inline background.
getAnnotations(el) ==
  [flags |-> CASE el.tag \in {"B", "STRONG"} -> {"bold"}
               [] el.tag \in {"I", "EM"} -> {"italic"}
               [] el.tag = "CODE" -> {"code"}
               [] el.tag \in {"S", "DEL"} -> {"strikethrough"}
               [] el.tag = "U" -> {"underline"}
               [] OTHER -> {},
   color |-> getNotionColor(el)]

AllDollar(s) == \A i \in 1..Len(s) : s[i] = "$"

\* The first match of /^\${1,2}((?:.|\n)+?)\${1,2}$/ on text: the opening run
\* is taken greedily, the expression lazily, the closing run must end the text.
MathMatches(text) ==
  { m \in (1..2) \X (1..Len(text)) \X (1..2) :
      /\ m[1] + m[2] + m[3] = Len(text)
      /\ AllDollar(SubSeq(text, 1, m[1]))
      /\ \A i \in (m[1] + 1)..(m[1] + m[2]) :
            text[i] \notin LineTerminators \ {"\n"}
      /\ AllDollar(SubSeq(text, Len(text) - m[3] + 1, Len(text))) }

\* A variant that does not look at the class of the element
getMathExpressionOfAnyClass(el) ==
  LET text == textContent(el)
      ms == MathMatches(text)
  IN IF text = <<>> \/ ms = {} THEN <<>>
     ELSE LET best == CHOOSE m \in ms : \A o \in ms :
                        \/ m[1] > o[1]
                        \/ (m[1] = o[1] /\ m[2] <= o[2])
          IN SubSeq(text, best[1] + 1, best[1] + best[2])

getMathExpression(el) ==
  LET text == textContent(el)
      ms == MathMatches(text)
  IN IF text = <<>> \/ "math" \notin el.cls \/ ms = {} THEN <<>>
     ELSE LET best == CHOOSE m \in ms : \A o \in ms :
                        \/ m[1] > o[1]
                        \/ (m[1] = o[1] /\ m[2] <= o[2])
          IN SubSeq(text, best[1] + 1, best[1] + best[2])

\* A parsed element with its annotations
Annotated(type, blockType, annotations, el) ==
  Parsed(type, blockType, annotations.flags, annotations.color, <<>>, <<>>,
         el)

parseRichTextElement(el) == Annotated("rich_text", "", getAnnotations(el), el)

parseBlockElement(el, blockType) ==
  Annotated("block", blockType, getAnnotations(el), el)

\* /^https?:\/\/.+/.test(href)
StartsWith(s, prefix) ==
  Len(s) >= Len(prefix) /\ SubSeq(s, 1, Len(prefix)) = prefix

sHttp == <<"h", "t", "t", "p", ":", "/", "/">>
sHttps == <<"h", "t", "t", "p", "s", ":", "/", "/">>

isHttpURL(href) ==
  \E prefix \in {sHttp, sHttps} :
    /\ StartsWith(href, prefix)
    /\ Len(href) > Len(prefix)
    /\ href[Len(prefix) + 1] \notin LineTerminators

\* parseAnchorElement: the rich text element, with the link of an http(s)
\* href
parseAnchorElement(el) ==
  IF isHttpURL(el.href)
  THEN [parseRichTextElement(el) EXCEPT !.link = el.href]
  ELSE parseRichTextElement(el)

\* A variant in which a list item outside an ordered list is a bullet
parseListItemElementAsBullet(el, parentTag) ==
  IF parentTag = "OL" THEN parseBlockElement(el, "numbered_list_item")
  ELSE parseBlockElement(el, "bulleted_list_item")

parseListItemElement(el, parentTag) ==
  IF parentTag = "OL" THEN parseBlockElement(el, "numbered_list_item")
  ELSE IF parentTag = "UL" THEN parseBlockElement(el, "bulleted_list_item")
  ELSE parseBlockElement(el, "paragraph")

parsePreElement(el) ==
  IF getMathExpression(el) # <<>>
  THEN Parsed("math_block", "equation", {}, "", <<>>, getMathExpression(el), el)
  ELSE parseBlockElement(el, "code")

parseSpanElement(el) ==
  IF getMathExpression(el) # <<>>
  THEN Parsed("inline_math", "", {}, "", <<>>, getMathExpression(el), el)
  ELSE parseRichTextElement(el)

parseTextNode(node) ==
  IF Trim(node.text) = <<>> THEN NoParsed
  ELSE [NoParsed EXCEPT !.type = "text", !.element = node]

\* parseNode(node), for the node of entry e and its parent's tag
parseNode(e) ==
  LET node == e.node IN
  IF isTextNode(node) THEN parseTextNode(node)
  ELSE IF ~isHTMLElement(node) THEN NoParsed
  ELSE IF node.tag = "BLOCKQUOTE"
    THEN Parsed("block", "quote", {}, "", <<>>, <<>>, node)
  ELSE IF "highlight" \in node.cls
    THEN Parsed("rich_text", "", {}, "yellow_background", <<>>, <<>>, node)
  ELSE IF "citation" \in node.cls
    THEN Parsed("rich_text", "", {}, "", <<>>, <<>>, node)
  ELSE IF node.tag = "P"
    THEN Parsed("block", "paragraph", {}, "", <<>>, <<>>, node)
  ELSE CASE node.tag = "A" -> parseAnchorElement(node)
         [] node.tag \in {"BODY", "DIV"} -> parseBlockElement(node, "paragraph")
         [] node.tag = "H1" -> parseBlockElement(node, "heading_1")
         [] node.tag = "H2" -> parseBlockElement(node, "heading_2")
         [] node.tag \in {"H3", "H4", "H5", "H6"} ->
              parseBlockElement(node, "heading_3")
         [] node.tag = "LI" -> parseListItemElement(node, e.parentTag)
         [] node.tag \in {"OL", "UL"} ->
              Parsed("list", "", {}, "", <<>>, <<>>, node)
         [] node.tag = "PRE" -> parsePreElement(node)
         [] node.tag = "SPAN" -> parseSpanElement(node)
         [] OTHER -> parseRichTextElement(node)

----------------------------------------------------------------------------
(* Rich text of an element's children *)

Options(flags, color, link, preserveWhitespace) ==
  [flags |-> flags, color |-> color, link |-> link,
   preserveWhitespace |-> preserveWhitespace]

NoOptions == Options({}, "", <<>>, FALSE)

\* { ...options.annotations, ...annotations }
MergeAnnotations(options, flags, color) ==
  [options EXCEPT !.flags = options.flags \cup flags,
                  !.color = IF color # "" THEN color ELSE options.color]

\* buildRichText(content, options): one span carrying the options'
\* annotations and link; nothing for empty content.
buildRichText(content, options) ==
  IF content = <<>> THEN <<>>
  ELSE <<Span("text", content, options.flags, options.color, options.link)>>

RECURSIVE convertRichTextChildNodes(_, _)
RECURSIVE convertRichTextNode(_, _)

convertRichTextChildNodes(node, options) ==
  Flat([i \in 1..Len(node.kids) |->
          LET parsedNode == parseNode([node |-> node.kids[i],
                                       parentTag |-> node.tag,
                                       next |-> NoNode])
          IN IF parsedNode.type = "none" THEN <<>>
             ELSE convertRichTextNode(parsedNode, options)])

convertRichTextNode(node, options) ==
  IF node.type = "text" THEN buildRichText(node.element.text, options)
  ELSE IF node.type = "br"
    THEN buildRichText(<<nl>>, [options EXCEPT !.preserveWhitespace = TRUE])
  ELSE IF node.type = "inline_math" THEN <<EquationSpan(node.expression)>>
  ELSE LET updatedOptions ==
             IF node.type = "rich_text"
             THEN [MergeAnnotations(options, node.flags, node.color)
                     EXCEPT !.link = IF node.link # <<>> THEN node.link
                                     ELSE options.link]
             ELSE options
       IN convertRichTextChildNodes(node.element, updatedOptions)

----------------------------------------------------------------------------
(* convertBlockElement *)

\* BlockResult of the annotation branch: a paragraph wrapping the blocks
WrapBlocks(blks) == Blk("paragraph", <<>>, "", TRUE, blks, <<>>)

\* The text after the citation marker: its next sibling's textContent
TextAfterCitation(element) ==
  LET citation == querySelectorEntry(element, ByClass("citation")) IN
  IF citation.node = NoNode \/ citation.next = NoNode THEN <<>>
  ELSE textContent(citation.next)

\* A variant without the slice: a space follows every tag
RECURSIVE InterleaveSpacesAfterEach(_)
InterleaveSpacesAfterEach(tags) ==
  IF Len(tags) = 0 THEN <<>>
  ELSE <<Head(tags), TextSpan(<<sp>>)>> \o InterleaveSpacesAfterEach(Tail(tags))

\* formattedTags.flatMap((tag) => [tag, space]).slice(0, -1)
RECURSIVE InterleaveSpaces(_)
InterleaveSpaces(tags) ==
  IF Len(tags) = 0 THEN <<>>
  ELSE IF Len(tags) = 1 THEN tags
  ELSE <<Head(tags), TextSpan(<<sp>>)>> \o InterleaveSpaces(Tail(tags))

\* The blocks of a paragraph with a highlight marker and no image
HighlightBlocks(element) ==
  LET highlightSpan == querySelector(element, ByClass("highlight"))
      colorSpan == querySelector(highlightSpan, ByTag("SPAN"))
      notionColor == getNotionColor(IF colorSpan # NoNode THEN colorSpan
                                    ELSE highlightSpan)
      rawText == IF colorSpan # NoNode /\ textContent(colorSpan) # <<>>
                 THEN textContent(colorSpan)
                 ELSE textContent(highlightSpan)
      highlightedText == Trim(SliceInner(rawText))
      parts == SplitHash(Trim(TextAfterCitation(element)))
      comment == Head(parts)
      tagParts == Tail(parts)
      formattedTags == [i \in 1..Len(tagParts) |->
                          CodeSpan(<<"#">> \o Trim(tagParts[i]))]
  IN << Callout(highlightedText,
                IF notionColor # "" THEN notionColor ELSE "yellow_background"),
        paragraphBlock(<<TextSpan(Trim(comment) \o <<nl>>)>>
                       \o InterleaveSpaces(formattedTags)),
        Divider >>

\* The blocks of an image paragraph once uploadToImgur returned imgurUrl,
\* for a descriptor that has a color
ImageBlocks(element, imgurUrl) ==
  LET data == querySelector(element, ByTag("IMG")).data
      comment == Trim(TextAfterCitation(element))
  IN << [Callout(comment, getNotionColorFromHex(data.color))
           EXCEPT !.hasChildren = TRUE,
                  !.children = <<ExternalImage(imgurUrl)>>],
        Divider >>

\* The default handling: a leaf block of the element's rich text
RegularBlock(parsed) ==
  LET updatedOptions ==
        [MergeAnnotations(NoOptions, parsed.flags, "")
           EXCEPT !.preserveWhitespace = (parsed.blockType = "code")]
      richText == convertRichTextChildNodes(parsed.element, updatedOptions)
  IN Blk(parsed.blockType,
         IF updatedOptions.preserveWhitespace THEN richText
         ELSE trimRichText(richText),
         parsed.color, FALSE, <<>>, <<>>)

\* Which branch convertBlockElement takes for a parsed block
BlockBranch(parsed, annotation) ==
  LET element == parsed.element IN
  IF annotation /\ element.tag = "P"
     /\ (querySelector(element, ByClass("highlight")) # NoNode
         \/ querySelector(element, ByTag("IMG")) # NoNode)
  THEN IF querySelector(element, ByTag("IMG")) # NoNode THEN "image"
       ELSE "highlight"
  ELSE "regular"

----------------------------------------------------------------------------
(* convertHtmlToBlocks: the per-paragraph promises *)

\* The value an async map callback resolves with: undefined, one block, or
\* the array of a wrapping paragraph's children.
ValUndefined == [kind |-> "undefined", items |-> <<>>]
ValBlock(b) == [kind |-> "block", items |-> <<b>>]
ValArray(bs) == [kind |-> "array", items |-> bs]

\* The callback's return for convertNode's result: the children of an
\* annotation paragraph instead of the paragraph.
MapCallbackKeepsWrapper(result, annotation) ==
  IF result = Undefined THEN ValUndefined ELSE ValBlock(result)

MapCallbackValue(result, annotation) ==
  IF result = Undefined THEN ValUndefined
  ELSE IF annotation /\ result.type = "paragraph" /\ result.hasChildren
    THEN ValArray(result.children)
  ELSE ValBlock(result)

\* The promise of one callback: its state, its value, the cache loadCache
\* returned to a pending uploadToImgur, where its upload stands ("none" when
\* the callback uploads nothing), the hash of the file it uploads, the
\* paragraph the callback was given, and the awaits the callback passes
\* through before it returns when it waits for no request (0 otherwise).
Task(st, val, loaded) ==
  [st |-> st, val |-> val, loaded |-> loaded, upload |-> "none",
   hash |-> "", element |-> NoEntry, awaits |-> 0]

Fulfilled(result, annotation) ==
  Task("fulfilled", MapCallbackValue(result, annotation), {})

\* The catch of the image branch: the error is logged and the filler blocks
\* are used.
ImageErrorRethrown(annotation) == Task("rejected", ValUndefined, {})

ImageErrorTask(annotation) == Fulfilled(WrapBlocks(createFillerBlocks), annotation)

\* The URL Imgur answers with for the file of an annotation key
Url(key) == <<"imgur", key>>

\* The callback of an image paragraph once uploadToImgur returned: a
\* descriptor without a color makes getNotionColorFromHex throw, which the
\* catch handles.
UploadedTask(element, annotation, url) ==
  LET data == querySelector(element, ByTag("IMG")).data
  IN IF data.hasColor
     THEN Fulfilled(WrapBlocks(ImageBlocks(element, url)), annotation)
     ELSE ImageErrorTask(annotation)

\* The cache is a set of pairs of the hash of a file and its URL.
\* cache[fileHash]: the entries of the cache under a hash
CacheEntries(cache, fileHash) == { entry \in cache : entry[1] = fileHash }

\* cache[fileHash] = {url: imgurUrl, ...}
CachePut(cache, fileHash, url) ==
  (cache \ CacheEntries(cache, fileHash)) \cup {<<fileHash, url>>}

\* The paragraphs convertHtmlToBlocks maps over, in document order
AllElementsOf(container) ==
  SelectSeq(Descendants(container), LAMBDA e : isHTMLElement(e.node))

ParagraphsOf(container) == getElementsByTagName(container, "P")

\* The map callback for the paragraph of entry e, run until it waits for a
\* request or returns: cache is what loadCache reads, files gives for each
\* annotation key the MD5 hash of the bytes of its image file, "" when the
\* file does not exist. Every await gives up the turn, also the await of a
\* promise that is settled already: the callback awaits convertNode, which
\* awaits convertBlockElement for a block, which awaits uploadToImgur for an
\* image whose descriptor could be decoded.
StartTask(e, annotation, cache, files) ==
  LET parsed == parseNode(e)
      element == parsed.element
      branch == BlockBranch(parsed, annotation)
      data == querySelector(element, ByTag("IMG")).data
  IN IF parsed.type # "block"
       THEN [Fulfilled(Undefined, annotation) EXCEPT !.awaits = 1]
     ELSE IF branch = "regular"
       THEN [Fulfilled(RegularBlock(parsed), annotation) EXCEPT !.awaits = 2]
     ELSE IF branch = "highlight"
       THEN [Fulfilled(WrapBlocks(HighlightBlocks(element)), annotation)
               EXCEPT !.awaits = 2]
     ELSE IF data.state = "bad"
       THEN [ImageErrorTask(annotation)
               EXCEPT !.upload = "undecodable", !.awaits = 2]
     ELSE IF data.state = "none" \/ files[data.key] = ""
       THEN [ImageErrorTask(annotation)
               EXCEPT !.upload = "nofile", !.awaits = 3]
     ELSE IF CacheEntries(cache, files[data.key]) # {}
       THEN [UploadedTask(element, annotation,
                          (CHOOSE entry \in CacheEntries(cache,
                                                         files[data.key]) :
                             TRUE)[2])
               EXCEPT !.upload = "cached", !.hash = files[data.key],
                      !.awaits = 3]
     ELSE [Task("waiting", ValUndefined, cache)
             EXCEPT !.upload = "pending", !.hash = files[data.key]]

\* The paragraphs of document d that convertHtmlToBlocks maps over: none when
\* there is no container.
Paragraphs(d) ==
  LET container == findContainer(d)
  IN IF container = NoNode THEN <<>> ELSE ParagraphsOf(container)

\* The promises of the map callbacks when convertHtmlToBlocks awaits them
StartTasks(d, annotation, cache, files) ==
  LET paragraphs == Paragraphs(d)
  IN [i \in 1..Len(paragraphs) |->
        [StartTask(paragraphs[i], annotation, cache, files)
           EXCEPT !.element = paragraphs[i]]]

\* The callbacks that pass through n awaits and wait for no request, in the
\* order of their paragraphs
SettledAfter(ts, n) ==
  SelectSeq([i \in 1..Len(ts) |-> i],
            LAMBDA i : ts[i].st # "waiting" /\ ts[i].awaits = n)

\* The promises that are settled without waiting for a request, in the order
\* in which they settle: the job queue is first in, first out, every resumed
\* callback queues at most its next resumption, so a callback with fewer
\* awaits returns before one with more, and two with as many return in the
\* order of their paragraphs. No callback passes through more than the three
\* awaits of the map callback, convertNode and convertBlockElement
SettledAtStart(ts) ==
  SettledAfter(ts, 1) \o SettledAfter(ts, 2) \o SettledAfter(ts, 3)

\* The annotation key of the image of a paragraph
ImageKey(element) == querySelector(element, ByTag("IMG")).data.key

\* Promise.all: the values in the order of the promises
PromiseAllByCompletion(ts, order) == [k \in 1..Len(ts) |-> ts[order[k]].val]

PromiseAllValues(ts, order) == [i \in 1..Len(ts) |-> ts[i].val]

\* results.filter(Boolean).flat()
FlattenUnfiltered(vals) ==
  Flat([i \in 1..Len(vals) |->
          IF vals[i].kind = "undefined" THEN <<Undefined>> ELSE vals[i].items])

FlattenResults(vals) ==
  Flat([i \in 1..Len(vals) |->
          IF vals[i].kind = "undefined" THEN <<>> ELSE vals[i].items])

----------------------------------------------------------------------------
(* buildNoteBlockBatches: grouping by color *)

\* String(color): the characters of the color of a callout as the key of
\* colorGroups. The color is a token, the function Object, whose source text
\* the engine gives as function Object() { [native code] }, or
\* Object.prototype, [object Object]
ColorKey(color) ==
  CASE color = "yellow_background" ->
         <<"y", "e", "l", "l", "o", "w", "_", "b", "a", "c", "k", "g", "r",
           "o", "u", "n", "d">>
    [] color = "red_background" ->
         <<"r", "e", "d", "_", "b", "a", "c", "k", "g", "r", "o", "u", "n",
           "d">>
    [] color = "orange_background" ->
         <<"o", "r", "a", "n", "g", "e", "_", "b", "a", "c", "k", "g", "r",
           "o", "u", "n", "d">>
    [] color = "green_background" ->
         <<"g", "r", "e", "e", "n", "_", "b", "a", "c", "k", "g", "r", "o",
           "u", "n", "d">>
    [] color = "blue_background" ->
         <<"b", "l", "u", "e", "_", "b", "a", "c", "k", "g", "r", "o", "u",
           "n", "d">>
    [] color = "purple_background" ->
         <<"p", "u", "r", "p", "l", "e", "_", "b", "a", "c", "k", "g", "r",
           "o", "u", "n", "d">>
    [] color = "pink_background" ->
         <<"p", "i", "n", "k", "_", "b", "a", "c", "k", "g", "r", "o", "u",
           "n", "d">>
    [] color = "gray_background" ->
         <<"g", "r", "a", "y", "_", "b", "a", "c", "k", "g", "r", "o", "u",
           "n", "d">>
    [] color = "default" ->
         <<"d", "e", "f", "a", "u", "l", "t">>
    [] color = "function Object" ->
         <<"f", "u", "n", "c", "t", "i", "o", "n", " ", "O", "b", "j", "e",
           "c", "t", "(", ")", " ", "{", " ", "[", "n", "a", "t", "i", "v",
           "e", " ", "c", "o", "d", "e", "]", " ", "}">>
    [] color = "Object.prototype" ->
         <<"[", "o", "b", "j", "e", "c", "t", " ", "O", "b", "j", "e", "c",
           "t", "]">>

\* The color to section title mapping
colorTitles == {
    <<<<"y", "e", "l", "l", "o", "w", "_", "b", "a", "c", "k", "g", "r", "o",
        "u", "n", "d">>,
      <<"H", "i", "g", "h", "l", "i", "g", "h", "t", "s">>>>,
    <<<<"r", "e", "d", "_", "b", "a", "c", "k", "g", "r", "o", "u", "n", "d">>,
      <<"W", "e", "a", "k", " ", "P", "o", "i", "n", "t", "s">>>>,
    <<<<"g", "r", "e", "e", "n", "_", "b", "a", "c", "k", "g", "r", "o", "u",
        "n", "d">>,
      <<"S", "t", "r", "o", "n", "g", " ", "P", "o", "i", "n", "t", "s">>>>,
    <<<<"b", "l", "u", "e", "_", "b", "a", "c", "k", "g", "r", "o", "u", "n",
        "d">>,
      <<"U", "n", "i", "q", "u", "e", " ", "P", "o", "i", "n", "t", "s">>>>,
    <<<<"p", "u", "r", "p", "l", "e", "_", "b", "a", "c", "k", "g", "r", "o",
        "u", "n", "d">>,
      <<"T", "o", " ", "E", "x", "p", "l", "o", "r", "e">>>>,
    <<<<"d", "e", "f", "a", "u", "l", "t">>,
      <<"O", "t", "h", "e", "r", " ", "N", "o", "t", "e", "s">>>> }

\* colorTitles[color]: the entries under the key, those that the object
\* literal inherits from Object.prototype included
TitleEntries(key) ==
  { e \in colorTitles \cup inheritedProperties : e[1] = key }

\* The first place at which pattern occurs in s, 0 when it does not
IndexOf(s, pattern) ==
  LET at == { i \in 1..(Len(s) - Len(pattern) + 1) :
                SubSeq(s, i, i + Len(pattern) - 1) = pattern }
  IN IF at = {} THEN 0 ELSE CHOOSE i \in at : \A j \in at : i <= j

\* s.replace(pattern, replacement) for a string pattern: the first
\* occurrence only
ReplaceFirst(s, pattern, replacement) ==
  LET i == IndexOf(s, pattern)
  IN IF i = 0 THEN s
     ELSE SubSeq(s, 1, i - 1) \o replacement
            \o SubSeq(s, i + Len(pattern), Len(s))

s_background == <<"_", "b", "a", "c", "k", "g", "r", "o", "u", "n", "d">>

\* color.replace('_background', '').replace('_', ' ').toUpperCase()
FallbackTitle(key) ==
  toUpperCase(ReplaceFirst(ReplaceFirst(key, s_background, <<>>),
                           <<"_">>, <<" ">>))

\* colorTitles[color] || the fallback, for the key color of colorGroups
HeadingTitle(key) ==
  IF TitleEntries(key) # {} THEN (CHOOSE e \in TitleEntries(key) : TRUE)[2]
  ELSE FallbackTitle(key)

Heading(title) == Blk("heading_3", <<TextSpan(title)>>, "", TRUE, <<>>, <<>>)

CalloutColor(block) == IF block.color # "" THEN block.color ELSE "default"

\* A first pass that lists a color once per callout
RECURSIVE ColorKeysWithRepeats(_, _)
ColorKeysWithRepeats(blks, seen) ==
  IF blks = <<>> THEN seen
  ELSE LET b == Head(blks) IN
       IF b.type = "callout"
       THEN ColorKeysWithRepeats(Tail(blks), Append(seen, CalloutColor(b)))
       ELSE ColorKeysWithRepeats(Tail(blks), seen)

\* First pass: the callout colors, in the order Object.keys lists them
RECURSIVE ColorKeys(_, _)
ColorKeys(blks, seen) ==
  IF blks = <<>> THEN seen
  ELSE LET b == Head(blks) IN
       IF b.type = "callout"
          /\ \A i \in 1..Len(seen) : seen[i] # CalloutColor(b)
       THEN ColorKeys(Tail(blks), Append(seen, CalloutColor(b)))
       ELSE ColorKeys(Tail(blks), seen)

\* The title the second pass looks a group's heading up by
LookupTitleWithFallback(color) == { HeadingTitle(ColorKey(color)) }

\* colorTitles[currentCalloutColor]: no title when the table has no entry
LookupTitle(color) == { e[2] : e \in TitleEntries(ColorKey(color)) }

\* blocks.find(heading with the looked-up title) and the push of the group
PushGroup(headings, color, group) ==
  LET hit == { i \in 1..Len(headings) :
                 /\ color # ""
                 /\ headings[i].rich_text[1].content \in LookupTitle(color) }
  IN IF color = "" \/ group = <<>> \/ hit = {} THEN headings
     ELSE LET h == CHOOSE i \in hit : \A j \in hit : i <= j
          IN [headings EXCEPT ![h].children = @ \o group]

RECURSIVE ConcatContents(_)
ConcatContents(spans) ==
  IF spans = <<>> THEN <<>>
  ELSE Head(spans).content \o ConcatContents(Tail(spans))

IsTagSpan(span) == "code" \in span.flags

\* The blocks a paragraph after a callout contributes to the current group
SplitParagraph(block) ==
  LET richText == block.rich_text
      comment == ConcatContents(SelectSeq(richText, LAMBDA t : ~IsTagSpan(t)))
      tagSpans == SelectSeq(richText, IsTagSpan)
      tags == [i \in 1..Len(tagSpans) |-> CodeSpan(tagSpans[i].content)]
  IN (IF Trim(comment) # <<>>
      THEN <<paragraphBlock(<<TextSpan(Trim(comment))>>)>> ELSE <<>>)
     \o (IF Len(tags) > 0
         THEN <<paragraphBlock(InterleaveSpaces(tags))>> ELSE <<>>)

\* Second pass, from block i on: cur is currentCalloutColor ("" for null)
RECURSIVE Organize(_, _, _, _, _)
Organize(blks, i, headings, cur, group) ==
  IF i > Len(blks) THEN PushGroup(headings, cur, group)
  ELSE LET b == blks[i] IN
       IF b.type = "callout"
       THEN Organize(blks, i + 1, PushGroup(headings, cur, group),
                     CalloutColor(b), <<b>>)
       ELSE IF cur # "" /\ b.type = "paragraph"
       THEN Organize(blks, i + 1, headings, cur, group \o SplitParagraph(b))
       ELSE IF cur # "" /\ b.type = "divider"
       THEN Organize(blks, i + 1, headings, cur, Append(group, b))
       ELSE Organize(blks, i + 1, headings, cur, group)

\* text.text.content of a span without text throws a TypeError
GroupingThrows(originalBlocks) ==
  \E i \in 1..Len(originalBlocks) :
     /\ originalBlocks[i].type = "paragraph"
     /\ \E j \in 1..(i - 1) : originalBlocks[j].type = "callout"
     /\ \E k \in 1..Len(originalBlocks[i].rich_text) :
           /\ originalBlocks[i].rich_text[k].kind # "text"
           /\ ~IsTagSpan(originalBlocks[i].rich_text[k])

GroupByColor(originalBlocks) ==
  LET keys == ColorKeys(originalBlocks, <<>>)
      headings == [i \in 1..Len(keys) |->
                    Heading(HeadingTitle(ColorKey(keys[i])))]
  IN Organize(originalBlocks, 1, headings, "", <<>>)

----------------------------------------------------------------------------
(* buildNoteBlockBatches: batching *)

\* The cap of Math.min(LIMITS.BLOCK_ARRAY_ELEMENTS, 100)
BatchCap == 100

Min(a, b) == IF a <= b THEN a ELSE b
Max(a, b) == IF a >= b THEN a ELSE b
CeilDiv(a, b) == (a + b - 1) \div b

BatchSizeUncapped(lim) == lim

BatchSize(lim) == Min(lim, BatchCap)

\* blocks.slice(start, end) of iteration i of the for loop
BatchSlice(blks, batchSize, i) ==
  LET start == i * batchSize
      end == Min(start + batchSize, Len(blks))
  IN SubSeq(blks, start + 1, end)

\* A batching that pushes every slice, the empty one included
BatchesKeepEmpty(blks, lim) ==
  LET batchSize == BatchSize(lim)
      numBatches == Max(1, CeilDiv(Len(blks), batchSize))
  IN [k \in 1..numBatches |-> BatchSlice(blks, batchSize, k - 1)]

\* The for loop over i = 0 .. numBatches - 1: the non-empty slices
Batches(blks, lim) ==
  LET batchSize == BatchSize(lim)
      numBatches == Max(1, CeilDiv(Len(blks), batchSize))
  IN SelectSeq([k \in 1..numBatches |-> BatchSlice(blks, batchSize, k - 1)],
               LAMBDA batch : Len(batch) > 0)

----------------------------------------------------------------------------
(* The documents *)

q == "\""
sHello == <<"H", "e", "l", "l", "o">>
hexYellow == <<"#", "f", "f", "d", "4", "0", "0">>
hexRedUpper == <<"#", "F", "F", "6", "6", "6", "6">>
hexOrange == <<"#", "f", "f", "b", "4", "3", "7">>
rgbGreen == <<"r", "g", "b", "(", "9", "5", ",", sp, "2", "4", "0", ",", sp,
              "5", "4", ")">>

Citation == El("SPAN", {"citation"}, <<Txt(<<"(", "c", ")">>)>>)

\* <p> Hi </p>
PPlain == El("P", {}, <<Txt(<<sp, "H", "i", sp>>)>>)

\* <div><p>Hello</p></div>
DivP == El("DIV", {}, <<El("P", {}, <<Txt(sHello)>>)>>)

\* <p class="highlight">x</p>
PSelfHighlight == El("P", {"highlight"}, <<Txt(<<"x">>)>>)

\* <p><span class="highlight"><span style="background-color:#ffd400">" Key "
\* </span></span> <span class="citation">(c)</span> ok #a #b</p>
PYellow ==
  El("P", {},
     << El("SPAN", {"highlight"},
           <<ElBg("SPAN", {}, hexYellow,
                  <<Txt(<<q, sp, "K", "e", "y", sp, q>>)>>)>>),
        Txt(<<sp>>),
        Citation,
        Txt(<<sp, "o", "k", sp, "#", "a", sp, "#", "b">>) >>)

\* <p><span class="highlight" style="background-color:rgb(95, 240, 54)">"G"
\* </span><span class="citation">(c)</span></p>
PGreen ==
  El("P", {},
     << ElBg("SPAN", {"highlight"}, rgbGreen, <<Txt(<<q, "G", q>>)>>),
        Citation >>)

\* <p><span class="highlight"><span style="background-color:#ffb437">"O"
\* </span></span><span class="citation">(c)</span> #t</p>
POrange ==
  El("P", {},
     << El("SPAN", {"highlight"},
           <<ElBg("SPAN", {}, hexOrange, <<Txt(<<q, "O", q>>)>>)>>),
        Citation,
        Txt(<<sp, "#", "t">>) >>)

\* <p><span class="highlight">"T"</span><span class="citation">(c)</span>
\*  c #a## b </p>
PTags ==
  El("P", {},
     << El("SPAN", {"highlight"}, <<Txt(<<q, "T", q>>)>>),
        Citation,
        Txt(<<sp, "c", sp, "#", "a", "#", "#", sp, "b", sp>>) >>)

\* <p><img data-annotation="{annotationKey: A, color: constructor}">
\* <span class="citation">(c)</span> im </p>
PImgA ==
  El("P", {},
     << Img(ImgData("A", TRUE, sConstructor)), Citation,
        Txt(<<sp, "i", "m", sp>>) >>)

\* <p><img data-annotation="{annotationKey: B, color: #FF6666}"></p>
PImgB == El("P", {}, <<Img(ImgData("B", TRUE, hexRedUpper))>>)

\* <p><img data-annotation="{annotationKey: A}"></p>
PImgNoColor == El("P", {}, <<Img(ImgData("A", FALSE, <<>>))>>)

\* <p><img data-annotation="%"></p>: decodeURIComponent throws
PImgBad == El("P", {}, <<Img(BadData)>>)

\* <ul><li>x</li></ul>
ListNoP == El("UL", {}, <<El("LI", {}, <<Txt(<<"x">>)>>)>>)

TopLevelNodes ==
  { PPlain, DivP, PSelfHighlight, PYellow, PGreen, POrange, PTags, PImgA, PImgB,
    PImgNoColor, PImgBad, ListNoP }

ImageKeys == {"A", "B"}

\* The MD5 hashes of the bytes of the image files, and "" for no file
FileHashes == {"h1", "h2"}

\* Every image file exists with bytes of its own, and every file is in the
\* cache with the URL of the upload for an annotation key
OwnFiles == [key \in ImageKeys |-> IF key = "A" THEN "h1" ELSE "h2"]

\* The files of the inputs: each with bytes of its own, both with the same
\* bytes, and one of them missing
Files ==
  { OwnFiles, [key \in ImageKeys |-> "h1"],
    [OwnFiles EXCEPT !["A"] = ""], [OwnFiles EXCEPT !["B"] = ""] }
CachedAs(key) == { <<hash, Url(key)>> : hash \in FileHashes }

\* The most top-level nodes of a document
MaxNodes == 2

Docs == SeqsUpTo(TopLevelNodes, MaxNodes)

\* The values of LIMITS.BLOCK_ARRAY_ELEMENTS the pipeline is run with
PipelineLimits == {1, BatchCap}

----------------------------------------------------------------------------
(* The pipeline: buildNoteBlockBatches awaiting convertHtmlToBlocks *)

TrimIdle == trimPc = "off" /\ trimIn = <<>> /\ trimOut = <<>>

Init ==
  /\ doc \in Docs
  /\ isAnnotation \in BOOLEAN
  /\ limit \in PipelineLimits
  /\ prefCache \in {{}, {<<"h1", Url("A")>>}}
  /\ pc = "start"
  /\ tasks = <<>>
  /\ settleOrder = <<>>
  /\ blocks = <<>>
  /\ grouped = <<>>
  /\ batches = <<>>
  /\ TrimIdle /\ RestIdle

\* convertHtmlToBlocks up to the await of Promise.all: the document is
\* parsed, every map callback is started in document order, and the queued
\* jobs run until every callback has returned or waits for its request.
ConvertStart ==
  /\ pc = "start"
  /\ \E files \in Files :
       tasks' = StartTasks(doc, isAnnotation, prefCache, files)
  /\ settleOrder' = SettledAtStart(tasks')
  /\ IF tasks' = <<>>
     THEN blocks' = createEmptyAnnotation /\ pc' = "converted"
     ELSE pc' = "awaiting" /\ UNCHANGED blocks
  /\ UNCHANGED <<doc, isAnnotation, limit, prefCache, grouped, batches>>
  /\ UNCHANGED <<trimVars, restVars>>

\* The request of paragraph i's upload ends. With a status from 200 to 299
\* makeRequest resolves with JSON.parse of the body: on an answer with a
\* link uploadToImgur adds the URL to the cache it loaded and saves it, and
\* the image blocks are built. On any other status or answer, or on a
\* network error, the catch takes over. When the body is not JSON,
\* JSON.parse throws inside the load handler, the promise of makeRequest is
\* neither resolved nor rejected, and the callback waits for good.
UploadSettle(i) ==
  /\ pc = "awaiting"
  /\ i \in 1..Len(tasks)
  /\ tasks[i].st = "waiting"
  /\ tasks[i].upload = "pending"
  /\ \E response \in {"link", "error", "unparsed"} :
       CASE response = "link" ->
              /\ prefCache' =
                   CachePut(tasks[i].loaded, tasks[i].hash,
                            Url(ImageKey(tasks[i].element.node)))
              /\ tasks' = [tasks EXCEPT ![i] =
                   [UploadedTask(tasks[i].element.node, isAnnotation,
                                 Url(ImageKey(tasks[i].element.node)))
                      EXCEPT !.upload = "ok", !.hash = tasks[i].hash,
                             !.element = tasks[i].element]]
              /\ settleOrder' = Append(settleOrder, i)
         [] response = "error" ->
              /\ UNCHANGED prefCache
              /\ tasks' = [tasks EXCEPT ![i] =
                   [ImageErrorTask(isAnnotation)
                      EXCEPT !.upload = "failed",
                             !.element = tasks[i].element]]
              /\ settleOrder' = Append(settleOrder, i)
         [] response = "unparsed" ->
              /\ tasks' = [tasks EXCEPT ![i].upload = "unparsed"]
              /\ UNCHANGED <<prefCache, settleOrder>>
  /\ UNCHANGED <<doc, isAnnotation, limit, pc, blocks, grouped, batches>>
  /\ UNCHANGED <<trimVars, restVars>>

\* Promise.all settles: it rejects when a promise rejected, and otherwise
\* convertHtmlToBlocks returns the filtered, flattened values.
ConvertResolve ==
  /\ pc = "awaiting"
  /\ \A i \in 1..Len(tasks) : tasks[i].st # "waiting"
  /\ IF \E i \in 1..Len(tasks) : tasks[i].st = "rejected"
     THEN pc' = "rejected" /\ UNCHANGED blocks
     ELSE /\ blocks' = FlattenResults(PromiseAllValues(tasks, settleOrder))
          /\ pc' = "converted"
  /\ UNCHANGED <<doc, isAnnotation, limit, tasks, settleOrder, prefCache,
                 grouped, batches>>
  /\ UNCHANGED <<trimVars, restVars>>

\* The rest of buildNoteBlockBatches: an annotation note's blocks are grouped
\* by color, and the blocks are cut into batches.
BuildNoteBlockBatches ==
  /\ pc = "converted"
  /\ IF isAnnotation /\ GroupingThrows(blocks)
     THEN pc' = "failed" /\ UNCHANGED <<grouped, batches>>
     ELSE /\ grouped' = IF isAnnotation THEN GroupByColor(blocks) ELSE blocks
          /\ batches' = Batches(grouped', limit)
          /\ pc' = "done"
  /\ UNCHANGED <<doc, isAnnotation, limit, tasks, settleOrder, prefCache,
                 blocks>>
  /\ UNCHANGED <<trimVars, restVars>>

Next ==
  \/ ConvertStart
  \/ \E i \in 1..MaxNodes : UploadSettle(i)
  \/ ConvertResolve
  \/ BuildNoteBlockBatches

Spec == Init /\ [][Next]_vars

----------------------------------------------------------------------------
(* trimRichText on bounded inputs *)

MaxSpans == 3

sHi == <<sp, "H", "i", sp>>
sThere == <<"t", "h", "e", "r", "e">>
sYou == <<sp, "y", "o", "u", sp>>

SpanPool ==
  { TextSpan(sHi), TextSpan(sThere), TextSpan(sYou), TextSpan(<<sp>>),
    TextSpan(<<"H", "i">>), TextSpan(<<nbsp, "\r", "o", "k", vt>>),
    EquationSpan(<<"x">>) }

PipeIdle ==
  /\ doc = <<>> /\ isAnnotation = FALSE /\ limit = BatchCap /\ pc = "off"
  /\ tasks = <<>> /\ settleOrder = <<>> /\ prefCache = {}
  /\ blocks = <<>> /\ grouped = <<>> /\ batches = <<>>

InitTrim ==
  /\ trimPc = "input"
  /\ trimIn \in SeqsUpTo(SpanPool, MaxSpans)
  /\ trimOut = <<>>
  /\ PipeIdle /\ RestIdle

ApplyTrim ==
  /\ trimPc = "input"
  /\ trimOut' = trimRichText(trimIn)
  /\ trimPc' = "trimmed"
  /\ UNCHANGED trimIn
  /\ UNCHANGED <<pipeVars, restVars>>

SpecTrim == InitTrim /\ [][ApplyTrim]_vars

----------------------------------------------------------------------------
(* Batching on bounded inputs *)

\* The most blocks and the largest limit of the small inputs; the inputs
\* around the cap are added to them.
MaxBlocks == 7
MaxLimit == 4

BlockCounts == (0..MaxBlocks) \cup {BatchCap - 1, BatchCap, BatchCap + 1, 250}
BatchLimits == (1..MaxLimit) \cup {BatchCap, BatchCap + 1}

DigitChars == <<"0", "1", "2", "3", "4", "5", "6", "7", "8", "9">>

Digits(i) ==
  << DigitChars[((i \div 100) % 10) + 1], DigitChars[((i \div 10) % 10) + 1],
     DigitChars[(i % 10) + 1] >>

\* n paragraph blocks, each with its number as text
NumberedBlocks(n) == [i \in 1..n |-> paragraphBlock(<<TextSpan(Digits(i))>>)]

InitBatch ==
  /\ doc = <<>> /\ isAnnotation = FALSE /\ pc = "converted"
  /\ tasks = <<>> /\ settleOrder = <<>> /\ prefCache = {}
  /\ limit \in BatchLimits
  /\ blocks \in { NumberedBlocks(n) : n \in BlockCounts }
  /\ grouped = <<>> /\ batches = <<>>
  /\ TrimIdle /\ RestIdle

SpecBatch == InitBatch /\ [][BuildNoteBlockBatches]_vars

----------------------------------------------------------------------------
(* Properties of convertHtmlToBlocks *)

\* convertHtmlToBlocks has just returned blocks
Converted == pc = "converted"

\* The number of blocks the paragraphs before paragraph i contribute
RECURSIVE Offset(_)
Offset(i) == IF i <= 1 THEN 0 ELSE Offset(i - 1) + Len(tasks[i - 1].val.items)

\* The part of the result that paragraph i contributes
Segment(i) ==
  SubSeq(blocks, Offset(i) + 1, Offset(i) + Len(tasks[i].val.items))

\* C1: every element of the sequence convertHtmlToBlocks returns is a block
\* of a block type, never undefined and never a rich text or list result,
\* whether isAnnotation is set or not.
C1_OnlyBlocks ==
  Converted => \A k \in 1..Len(blocks) : blocks[k].type \in BlockTypes

\* A paragraph whose callback returned undefined was converted next to one
\* that gave blocks.
C1_Witness ==
  /\ pc = "converted"
  /\ \E i \in 1..Len(tasks) : tasks[i].val.kind = "undefined"
  /\ Len(blocks) > 0

\* C2: <div><p>Hello</p></div>, not an annotation, gives exactly one
\* paragraph block with the single span "Hello" and no children.
C2_DivWrappedParagraph ==
  (Converted /\ ~isAnnotation /\ doc = <<DivP>>) =>
    /\ Len(blocks) = 1
    /\ blocks[1].type = "paragraph"
    /\ blocks[1].rich_text = <<TextSpan(sHello)>>
    /\ ~blocks[1].hasChildren
    /\ blocks[1].children = <<>>

C2_Witness == pc = "converted" /\ ~isAnnotation /\ doc = <<DivP>>

\* The three blocks of each paragraph with a highlight marker
HighlightParagraphs == {PYellow, PGreen, POrange}

ExpectedHighlightBlocks(p) ==
  CASE p = PYellow ->
         << Callout(<<"K", "e", "y">>, "yellow_background"),
            paragraphBlock(<< TextSpan(<<"o", "k", nl>>),
                              CodeSpan(<<"#", "a">>), TextSpan(<<sp>>),
                              CodeSpan(<<"#", "b">>) >>),
            Divider >>
    [] p = PGreen ->
         << Callout(<<"G">>, "green_background"),
            paragraphBlock(<<TextSpan(<<nl>>)>>),
            Divider >>
    [] p = POrange ->
         << Callout(<<"O">>, "orange_background"),
            paragraphBlock(<<TextSpan(<<nl>>), CodeSpan(<<"#", "t">>)>>),
            Divider >>

\* C6: in an annotation note a paragraph with a highlight marker and no image
\* contributes exactly a callout (the highlight's text without its first and
\* last character, trimmed, in the resolved color), a paragraph (the comment
\* and a newline, then the tag spans with single spaces between them) and a
\* divider, and no paragraph that wraps them.
C6_HighlightTriple ==
  (Converted /\ isAnnotation) =>
    /\ \A i \in 1..Len(tasks) :
         tasks[i].element.node \in HighlightParagraphs =>
           /\ Len(tasks[i].val.items) = 3
           /\ Segment(i) = ExpectedHighlightBlocks(tasks[i].element.node)
    /\ \A k \in 1..Len(blocks) : ~blocks[k].hasChildren \/ blocks[k].type # "paragraph"

\* A highlight paragraph with a comment and two tags was converted after
\* another highlight paragraph.
C6_Witness ==
  pc = "converted" /\ isAnnotation /\ doc = <<PGreen, PYellow>>

UploadFailures == {"failed", "undecodable", "nofile"}

\* C9: a failed image upload or an undecodable descriptor never makes
\* convertHtmlToBlocks reject: the paragraph contributes the filler callout,
\* paragraph and divider, and every other paragraph contributes what it
\* contributes when all uploads succeed.
C9_UploadFailureGivesFiller ==
  /\ pc # "rejected"
  /\ Converted =>
       \A i \in 1..Len(tasks) :
          IF tasks[i].upload \in UploadFailures
          THEN Segment(i) = createFillerBlocks
          ELSE \E key \in ImageKeys :
                 tasks[i].val.items =
                   StartTask(tasks[i].element, isAnnotation,
                             CachedAs(key), OwnFiles).val.items

\* One upload failed while the upload of another paragraph succeeded.
C9_Witness ==
  /\ pc = "converted"
  /\ \E i, j \in 1..Len(tasks) :
        tasks[i].upload = "failed" /\ tasks[j].upload = "ok"

\* The position of the first block of type t in bs, 0 when there is none
FirstOfType(bs, t) ==
  IF \E k \in 1..Len(bs) : bs[k].type = t
  THEN CHOOSE k \in 1..Len(bs) :
         bs[k].type = t /\ \A m \in 1..(k - 1) : bs[m].type # t
  ELSE 0

\* C10: every conversion completes once, in an order of its own
\* (settleOrder), and whatever that order is, the conversion that completes
\* k-th, of paragraph settleOrder[k], has its blocks at the place of its
\* paragraph in the document and not at place k: the result is the
\* paragraphs' blocks in document order, each paragraph's blocks together,
\* the callout before the divider.
C10_DocumentOrder ==
  (Converted /\ Len(tasks) > 0) =>
    /\ Len(settleOrder) = Len(tasks)
    /\ { settleOrder[k] : k \in DOMAIN settleOrder } = DOMAIN tasks
    /\ Len(blocks) = Offset(Len(tasks) + 1)
    /\ \A k \in DOMAIN settleOrder :
         LET i == settleOrder[k]
         IN /\ Segment(i) = tasks[i].val.items
            /\ (tasks[i].upload = "ok" /\ Segment(i) # createFillerBlocks) =>
                 Segment(i)[1].children[1].url =
                   Url(ImageKey(tasks[i].element.node))
            /\ FirstOfType(Segment(i), "divider") > 0 =>
                 /\ FirstOfType(Segment(i), "callout") > 0
                 /\ FirstOfType(Segment(i), "callout")
                      < FirstOfType(Segment(i), "divider")

\* The conversions completed in the reverse of the document order and gave
\* different blocks: two uploads of which the second was answered first, or
\* a paragraph whose image file is missing before a paragraph without image,
\* which passes through fewer awaits.
C10_Witness ==
  /\ pc = "converted"
  /\ Len(tasks) = 2
  /\ settleOrder = <<2, 1>>
  /\ tasks[1].val # tasks[2].val
  /\ \/ tasks[1].upload = "ok" /\ tasks[2].upload = "ok"
     \/ tasks[1].upload = "nofile" /\ tasks[2].upload = "none"

----------------------------------------------------------------------------
(* Properties of the grouping *)

Callouts == { k \in 1..Len(blocks) : blocks[k].type = "callout" }

CalloutColors == { CalloutColor(blocks[k]) : k \in Callouts }

FirstCallout(c) ==
  CHOOSE k \in Callouts :
    /\ CalloutColor(blocks[k]) = c
    /\ \A m \in Callouts : CalloutColor(blocks[m]) = c => k <= m

HeadingsOf(c) ==
  { h \in 1..Len(grouped) :
      /\ grouped[h].type = "heading_3"
      /\ grouped[h].rich_text = <<TextSpan(HeadingTitle(ColorKey(c)))>> }

Grouped == pc = "done" /\ isAnnotation

\* C7: the grouped blocks are one heading per distinct callout color, in the
\* order the colors first occur, and the callouts under a heading have the
\* heading's color; yellow then green gives the yellow heading with the
\* yellow blocks and then the green heading with the green blocks.
C7_OneHeadingPerColor ==
  Grouped =>
    /\ Len(grouped) = Cardinality(CalloutColors)
    /\ \A h \in 1..Len(grouped) : grouped[h].type = "heading_3"
    /\ \A c \in CalloutColors : Cardinality(HeadingsOf(c)) = 1
    /\ \A c, d \in CalloutColors :
         FirstCallout(c) < FirstCallout(d) =>
           \A h \in HeadingsOf(c), g \in HeadingsOf(d) : h < g
    /\ \A c \in CalloutColors : \A h \in HeadingsOf(c) :
         \A k \in 1..Len(grouped[h].children) :
            grouped[h].children[k].type = "callout" =>
              CalloutColor(grouped[h].children[k]) = c
    /\ doc = <<PYellow, PGreen>> =>
         grouped =
           << [Heading(<<"H", "i", "g", "h", "l", "i", "g", "h", "t", "s">>) EXCEPT !.children =
                 << Callout(<<"K", "e", "y">>, "yellow_background"),
                    paragraphBlock(<<TextSpan(<<"o", "k">>)>>),
                    paragraphBlock(<< CodeSpan(<<"#", "a">>), TextSpan(<<sp>>),
                                      CodeSpan(<<"#", "b">>) >>),
                    Divider >>],
              [Heading(<<"S", "t", "r", "o", "n", "g", " ", "P", "o", "i", "n", "t",
                         "s">>) EXCEPT !.children =
                 << Callout(<<"G">>, "green_background"), Divider >>] >>

\* Two callouts of one color were grouped.
C7_Witness ==
  /\ Grouped
  /\ Cardinality(Callouts) = 2
  /\ Cardinality(CalloutColors) = 1
  /\ Len(grouped[1].children) > 3

\* C8: every callout of the converted sequence, and a divider, are among the
\* children of the heading of the callout's color, also for a color without
\* an entry in the color-to-title table.
C8_NoAnnotationLost ==
  Grouped =>
    \A k \in Callouts :
       \E h \in HeadingsOf(CalloutColor(blocks[k])) :
          /\ \E m \in 1..Len(grouped[h].children) :
                grouped[h].children[m] = blocks[k]
          /\ \E m \in 1..Len(grouped[h].children) :
                grouped[h].children[m].type = "divider"

----------------------------------------------------------------------------
(* Properties of the batching *)

Batched == pc = "done" /\ ~isAnnotation

\* C3: the batches are non-empty, none is longer than the limit, and put
\* together in order they are the input blocks, for every limit of 1 or more.
C3_BatchesPartitionInput ==
  Batched =>
    /\ \A k \in 1..Len(batches) :
          Len(batches[k]) > 0 /\ Len(batches[k]) <= limit
    /\ Flat(batches) = blocks

\* Blocks were cut into several batches, the last one shorter.
C3_Witness ==
  /\ Batched
  /\ Len(batches) >= 2
  /\ Len(batches[Len(batches)]) < Len(batches[1])

\* The batch sizes that cutting n blocks into batches of size b gives
ExpectedSizes(n, b) ==
  [k \in 1..CeilDiv(n, b) |->
     IF k < CeilDiv(n, b) THEN b ELSE n - b * (CeilDiv(n, b) - 1)]

BatchSizes == [k \in 1..Len(batches) |-> Len(batches[k])]

\* C4 as stated: n blocks and a limit L give ceil(n/L) batches, all of L
\* blocks but the last.
C4_SizesByLimit ==
  Batched => BatchSizes = ExpectedSizes(Len(blocks), limit)

\* C4: n blocks and a limit L give ceil(n/B) batches for B the smaller of L
\* and 100, all of B blocks but the last, which has the rest; 250 blocks with
\* a limit of 100 give 100, 100 and 50, and no blocks give no batch.
C4_SizesByCappedLimit ==
  Batched =>
    /\ BatchSizes = ExpectedSizes(Len(blocks), IF limit < 100 THEN limit ELSE 100)
    /\ (Len(blocks) = 250 /\ limit = 100) => BatchSizes = <<100, 100, 50>>
    /\ Len(blocks) = 0 => batches = <<>>

\* More than 100 blocks were batched with a limit above 100.
C4_Witness ==
  Batched /\ limit > 100 /\ Len(blocks) > 100 /\ Len(batches) >= 2

----------------------------------------------------------------------------
(* Properties of trimRichText *)

Trimmed == trimPc = "trimmed"

HiThereYou == <<TextSpan(sHi), TextSpan(sThere), TextSpan(sYou)>>

\* C5 as stated: " Hi " gives "Hi", and " Hi ", "there", " you " give "Hi",
\* "there", "you".
C5_BothEndsOfBothSpans ==
  Trimmed =>
    /\ trimIn = <<TextSpan(sHi)>> => trimOut = <<TextSpan(<<"H", "i">>)>>
    /\ trimIn = HiThereYou =>
         trimOut = << TextSpan(<<"H", "i">>), TextSpan(sThere),
                      TextSpan(<<"y", "o", "u">>) >>

\* C5: the single span " Hi " gives "Hi"; of several spans the first loses
\* its leading and the last its trailing white space and nothing else
\* changes, so " Hi ", "there", " you " give "Hi ", "there", " you".
C5_OuterEndsOnly ==
  Trimmed =>
    /\ trimIn = <<TextSpan(sHi)>> => trimOut = <<TextSpan(<<"H", "i">>)>>
    /\ trimIn = HiThereYou =>
         trimOut = << TextSpan(<<"H", "i", sp>>), TextSpan(sThere),
                      TextSpan(<<sp, "y", "o", "u">>) >>
    /\ (Len(trimIn) >= 2 /\ \A k \in 1..Len(trimIn) :
                               trimIn[k].kind = "text" /\ Trim(trimIn[k].content) # <<>>) =>
         /\ Len(trimOut) = Len(trimIn)
         /\ trimOut[1].content = TrimStart(trimIn[1].content)
         /\ trimOut[Len(trimIn)].content = TrimEnd(trimIn[Len(trimIn)].content)
         /\ \A k \in 2..(Len(trimIn) - 1) : trimOut[k] = trimIn[k]

\* The three spans " Hi ", "there", " you " were trimmed.
C5_Witness == Trimmed /\ trimIn = HiThereYou

----------------------------------------------------------------------------
(* Properties of convertHtmlToBlocks without a container *)

\* C11: when the document has no content container, convertHtmlToBlocks
\* returns the empty sequence for a note that is no annotation and the
\* placeholder callout, paragraph and divider for an annotation.
C11_NoContainerResult ==
  (Converted /\ findContainer(doc) = NoNode) =>
    blocks = IF isAnnotation THEN createEmptyAnnotation ELSE <<>>

----------------------------------------------------------------------------
(* parseNode on bounded inputs *)

\* The longest text of an input element
MaxText == 4

sX2 == <<"$", "x", "^", "2", "$">>

\* Expressions over two lines: with a line feed, and with a carriage return
sXLfX == <<"$", "x", "\n", "x", "$">>
sXCrX == <<"$", "x", "\r", "x", "$">>

ParseTexts == SeqsUpTo({"$", "x"}, MaxText) \cup {sX2, sXLfX, sXCrX}

\* The href property of the anchors of the inputs
ParseHrefs == { <<>>, sHttp, sHttp \o <<"e">>, sHttps \o <<"e">>,
                <<"m", "a", "i", "l", "t", "o", ":", "e">> }

ParseTags == {"H1", "H2", "H3", "H4", "H5", "H6", "LI", "OL", "UL", "PRE",
              "SPAN", "DIV", "P", "BLOCKQUOTE", "B"}

ParseClasses == {{}, {"math"}, {"highlight"}, {"citation"},
                 {"math", "highlight"}}

\* The tag of the parent element, "" for an element without a parent
ParentTags == {"", "OL", "UL", "DIV"}

\* <tag class="cls">text</tag>
ElementWithText(tag, cls, text) ==
  El(tag, cls, IF text = <<>> THEN <<>> ELSE <<Txt(text)>>)

InitParse ==
  /\ parsePc = "input"
  /\ parseIn \in { [node |-> ElementWithText(tag, cls, text),
                    parentTag |-> parent, next |-> NoNode] :
                   tag \in ParseTags, cls \in ParseClasses,
                   text \in ParseTexts, parent \in ParentTags }
                 \cup
                 { [node |-> Anchor(href, <<Txt(<<"x">>)>>),
                    parentTag |-> "P", next |-> NoNode] :
                   href \in ParseHrefs }
  /\ parseOut = <<>>
  /\ PipeIdle /\ TrimIdle /\ ColorIdle /\ ReduceIdle /\ SyncIdle

ApplyParse ==
  /\ parsePc = "input"
  /\ parseOut' = parseNode(parseIn)
  /\ parsePc' = "parsed"
  /\ UNCHANGED parseIn
  /\ UNCHANGED <<pipeVars, trimVars, colorVars, reduceVars, syncVars>>

SpecParse == InitParse /\ [][ApplyParse]_vars

----------------------------------------------------------------------------
(* Properties of parseNode *)

ParsedElement == parsePc = "parsed"

\* The rules for highlight and citation elements come before the rules by
\* tag name.
Marked == parseIn.node.cls \cap {"highlight", "citation"} # {}

ExpectedHeading(tag) ==
  CASE tag = "H1" -> "heading_1"
    [] tag = "H2" -> "heading_2"
    [] tag \in {"H3", "H4", "H5", "H6"} -> "heading_3"

\* C12: h1 is classified as heading_1, h2 as heading_2 and h3, h4, h5 and h6
\* all as heading_3, three different block types, and a heading never
\* supports children.
C12_Headings ==
  (ParsedElement /\ ~Marked
     /\ parseIn.node.tag \in {"H1", "H2", "H3", "H4", "H5", "H6"}) =>
    /\ parseOut.type = "block"
    /\ parseOut.blockType = ExpectedHeading(parseIn.node.tag)
    /\ parseOut.blockType \in BlockTypes
    /\ ~parseOut.supportsChildren
    /\ Cardinality({ExpectedHeading("H1"), ExpectedHeading("H2"),
                    ExpectedHeading("H3")}) = 3

\* An h6 with text was classified.
C12_Witness ==
  /\ ParsedElement /\ ~Marked
  /\ parseIn.node.tag = "H6" /\ parseIn.node.kids # <<>>
  /\ parseOut.blockType = "heading_3"

\* C13: an li is a numbered_list_item exactly under ol, a bulleted_list_item
\* exactly under ul and a paragraph under anything else or nothing; it is
\* always classified as a block, never refused.
C13_ListItems ==
  (ParsedElement /\ ~Marked /\ parseIn.node.tag = "LI") =>
    /\ parseOut.type = "block"
    /\ parseOut.blockType = "numbered_list_item" <=> parseIn.parentTag = "OL"
    /\ parseOut.blockType = "bulleted_list_item" <=> parseIn.parentTag = "UL"
    /\ parseOut.blockType = "paragraph" <=> parseIn.parentTag \notin {"OL", "UL"}

\* An li without a parent was classified as a paragraph.
C13_Witness ==
  /\ ParsedElement /\ ~Marked /\ parseIn.node.tag = "LI"
  /\ parseIn.parentTag = "" /\ parseOut.blockType = "paragraph"

\* The ways to read text as one or two $, an expression that is not empty,
\* and one or two $: the lengths of the two runs of $
Delimited(text) ==
  { d \in (1..2) \X (1..2) :
      /\ d[1] + d[2] < Len(text)
      /\ \A k \in 1..d[1] : text[k] = "$"
      /\ \A k \in (Len(text) - d[2] + 1)..Len(text) : text[k] = "$" }

\* C14 as stated: a span or pre gives a math node exactly when it has the
\* math class and its text is one or two $, an expression that is not empty,
\* and one or two $, and the node carries that expression ($x^2$ gives x^2);
\* otherwise, as for $$, a span is plain rich text and a pre is a code block.
C14_Math ==
  (ParsedElement /\ ~Marked /\ parseIn.node.tag \in {"SPAN", "PRE"}) =>
    LET text == textContent(parseIn.node)
        isMath == "math" \in parseIn.node.cls /\ Delimited(text) # {}
    IN /\ parseOut.type \in {"inline_math", "math_block"} <=> isMath
       /\ isMath =>
            /\ parseOut.type = IF parseIn.node.tag = "SPAN" THEN "inline_math"
                               ELSE "math_block"
            /\ \E d \in Delimited(text) :
                  parseOut.expression = SubSeq(text, d[1] + 1, Len(text) - d[2])
            /\ text = sX2 => parseOut.expression = <<"x", "^", "2">>
       /\ ~isMath =>
            /\ parseOut.expression = <<>>
            /\ parseIn.node.tag = "SPAN" => parseOut.type = "rich_text"
            /\ parseIn.node.tag = "PRE" =>
                 parseOut.type = "block" /\ parseOut.blockType = "code"

\* The readings whose expression has no line terminator but the line feed
DelimitedOnLines(text) ==
  { d \in Delimited(text) :
      \A k \in (d[1] + 1)..(Len(text) - d[2]) :
         text[k] \notin {"\r", ls, ps} }

\* C14: a span or pre gives a math node exactly when it has the math class
\* and its text is one or two $, an expression that is not empty and holds
\* no carriage return, line separator or paragraph separator, and one or two
\* $, and the node carries that expression ($x^2$ gives x^2); otherwise, as
\* for $$ and for an expression with a carriage return, a span is plain rich
\* text and a pre is a code block.
C14_MathWithoutCarriageReturn ==
  (ParsedElement /\ ~Marked /\ parseIn.node.tag \in {"SPAN", "PRE"}) =>
    LET text == textContent(parseIn.node)
        isMath == "math" \in parseIn.node.cls /\ DelimitedOnLines(text) # {}
    IN /\ parseOut.type \in {"inline_math", "math_block"} <=> isMath
       /\ isMath =>
            /\ parseOut.type = IF parseIn.node.tag = "SPAN" THEN "inline_math"
                               ELSE "math_block"
            /\ \E d \in DelimitedOnLines(text) :
                  parseOut.expression = SubSeq(text, d[1] + 1, Len(text) - d[2])
            /\ text = sX2 => parseOut.expression = <<"x", "^", "2">>
            /\ text = sXLfX => parseOut.expression = <<"x", "\n", "x">>
       /\ ~isMath =>
            /\ parseOut.expression = <<>>
            /\ parseIn.node.tag = "SPAN" => parseOut.type = "rich_text"
            /\ parseIn.node.tag = "PRE" =>
                 parseOut.type = "block" /\ parseOut.blockType = "code"

\* A span with the math class and the text $x, carriage return, x$ was
\* classified as plain rich text.
C14_Witness ==
  /\ ParsedElement /\ ~Marked /\ parseIn.node.tag = "SPAN"
  /\ "math" \in parseIn.node.cls /\ textContent(parseIn.node) = sXCrX
  /\ parseOut.type = "rich_text"


----------------------------------------------------------------------------
(* getNotionColorFromHex on bounded inputs *)

\* The most spaces before and after an input, and after each of its commas
MaxPad == 1
MaxGap == 2

Spaces(n) == [i \in 1..n |-> sp]

\* s with n spaces in the place of each of its spaces
RECURSIVE Respace(_, _)
Respace(s, n) ==
  IF s = <<>> THEN <<>>
  ELSE (IF Head(s) = sp THEN Spaces(n) ELSE <<Head(s)>>) \o Respace(Tail(s), n)

UnknownColors == { <<>>, <<"r", "e", "d">>, sConstructor, sProto,
                   <<CodeUnit(201)>>, <<CodeUnit(8490)>>, <<CodeUnit(304)>>,
                   <<"#", Sigma>>, <<"F", Sigma>>,
                   <<"\r", "#", "f", "f", "6", "6", "6", "6">>,
                   <<"#", "0", "0", "0", "0", "0", "0">>,
                   <<"r", "g", "b", "(", "1", ",", sp, "2", ",", sp, "3", ")">> }

\* Every key of the table in lower and upper case, with 0..MaxGap spaces
\* after its commas and 0..MaxPad spaces around it, and values not in the table
ColorInputs ==
  { Spaces(a) \o Respace(cased, n) \o Spaces(b) :
      cased \in { e[1] : e \in colorMap } \cup
                { toUpperCase(e[1]) : e \in colorMap } \cup UnknownColors,
      n \in 0..MaxGap, a \in 0..MaxPad, b \in 0..MaxPad }

InitColor ==
  /\ colorPc = "input"
  /\ colorIn \in ColorInputs
  /\ colorOut = ""
  /\ PipeIdle /\ TrimIdle /\ ParseIdle /\ ReduceIdle /\ SyncIdle

ApplyColor ==
  /\ colorPc = "input"
  /\ colorOut' = getNotionColorFromHex(colorIn)
  /\ colorPc' = "done"
  /\ UNCHANGED colorIn
  /\ UNCHANGED <<pipeVars, trimVars, parseVars, reduceVars, syncVars>>

SpecColor == InitColor /\ [][ApplyColor]_vars

----------------------------------------------------------------------------
(* Properties of getNotionColorFromHex *)

ColorTokens == { e[2] : e \in colorMap }

\* The entries of the table that the input is, but for letter case and spaces
SameColor(input) ==
  { e \in colorMap : StripSpaces(toLowerCase(input)) = StripSpaces(e[1]) }

\* C15: getNotionColorFromHex returns one of the eight background tokens; for
\* a known color written as hex or rgb(r,g,b) in any letter case and with any
\* spacing it returns the token of that color, and yellow for any other input.
C15_AnyCaseAnySpacing ==
  (colorPc = "done") =>
    /\ colorOut \in ColorTokens
    /\ Cardinality(ColorTokens) = 8
    /\ \A e \in SameColor(colorIn) : colorOut = e[2]
    /\ SameColor(colorIn) = {} => colorOut = "yellow_background"


----------------------------------------------------------------------------
(* syncNoteItem *)

\* The most blocks the conversion of the synced note returns
MaxSyncBlocks == 3

\* LIMITS.BLOCK_ARRAY_ELEMENTS, small enough for a note to need several batches
SyncLimits == {1, 2}

\* Block ids: none, the page of the parent item, the container and the note
\* block saved by an earlier sync, the parent a moved note block is found
\* under, and the ids the service gives to new blocks, in this order
NoID == ""
PageID == "page"
SavedContainerID == "container"
SavedNoteID == "note"
MovedParentID == "parent"
NewIDs == <<"new1", "new2", "new3", "new4">>

\* The two asynchronous definitions of convertHtmlToBlocks in the source: the
\* one that converts the paragraphs of the container, and the one that
\* returns the text of the body as one paragraph and catches what it throws
Converters == {"paragraphs", "bodyText"}

sParserError == "parser-error"

\* What await convertHtmlToBlocks(...) gives: it rejects, or resolves with
\* blocks
Conversion(threw, cause, blks) ==
  [threw |-> threw, cause |-> cause, blocks |-> blks]

\* doc.body?.textContent || html of a note of n paragraphs and nothing else,
\* each with its number as text: the numbers one after the other, and of the
\* note without paragraph its html, the empty string
BodyText(n) == Flat([i \in 1..n |-> Digits(i)])

\* convertHtmlToBlocks for a note of n paragraphs, each with its number as
\* text: the first definition gives a block for each paragraph, and for a
\* note without paragraph the placeholder blocks, the second one paragraph
\* with the trimmed text of the whole body
convertHtmlToBlocks(converter, parserThrows, n) ==
  IF converter = "paragraphs"
  THEN IF parserThrows THEN Conversion(TRUE, sParserError, <<>>)
       ELSE IF n = 0 THEN Conversion(FALSE, "", createEmptyAnnotation)
       ELSE Conversion(FALSE, "", NumberedBlocks(n))
  ELSE IF parserThrows THEN Conversion(FALSE, "", <<>>)
       ELSE Conversion(FALSE, "",
                       <<paragraphBlock(<<TextSpan(BodyText(n))>>)>>)

\* buildNoteBlockBatches(noteItem, isAnnotation) on the outcome of the
\* conversion: the error it throws and the batches it returns
NoteBlockBatches(converted, annotation, lim) ==
  IF converted.threw
  THEN [error |-> Err("notero-error-note-conversion-failed", converted.cause),
        batches |-> <<>>]
  ELSE IF annotation /\ GroupingThrows(converted.blocks)
  THEN [error |-> Err("notero-error-note-conversion-failed", "TypeError"),
        batches |-> <<>>]
  ELSE [error |-> NoError,
        batches |-> Batches(IF annotation THEN GroupByColor(converted.blocks)
                            ELSE converted.blocks, lim)]

\* The outcomes of a request to the service: done, refused because the
\* target is archived or not found, refused for another reason; and for a
\* request that creates a block, done without a full block in its results
Outcomes == {"ok", "gone", "error"}
CreateOutcomes == Outcomes \cup {"empty"}

\* The error a failed request throws
ApiError(outcome) ==
  IF outcome = "gone" THEN Err("object_not_found", "")
  ELSE Err("internal_server_error", "")

isArchivedOrNotFoundError(error) == error.code = "object_not_found"

\* A variant of the catch block that rethrows nothing
catchNeverRethrows(error) == FALSE

\* The catch block of syncNoteItem: if (!isArchivedOrNotFoundError(error))
catchRethrows(error) == ~isArchivedOrNotFoundError(error)

\* What createContainerBlock and createNoteBlock throw
ContainerError(outcome) ==
  CASE outcome = "ok" -> NoError
    [] outcome = "empty" -> Err("notero-error-note-sync-failed", "")
    [] OTHER -> ApiError(outcome)

NoteError(outcome) ==
  CASE outcome = "ok" -> NoError
    [] outcome = "empty" -> Err("Failed to create note block", "")
    [] OTHER -> ApiError(outcome)

\* A variant of the loop of addNoteBlockContent that goes on after a failure
AppendNeverStops(outcome) == FALSE

\* Whether the loop of addNoteBlockContent ends at this outcome of its request
AppendStops(outcome) == outcome # "ok"

\* A request: the operation, the block it is made on, the children it
\* appends, its outcome and the id of the block it created
Call(op, target, children, outcome, id) ==
  [op |-> op, target |-> target, children |-> children, outcome |-> outcome,
   id |-> id]

CallsOf(op) == SelectSeq(calls, LAMBDA c : c.op = op)

InitSync ==
  /\ syncPc = "start"
  /\ syncIn \in [topLevel : BOOLEAN, pageSynced : BOOLEAN,
                 containerBlockID : {NoID, SavedContainerID},
                 existingNoteBlockID : {NoID, SavedNoteID},
                 isAnnotation : BOOLEAN,
                 converter : Converters, parserThrows : BOOLEAN,
                 blockCount : 1..MaxSyncBlocks, limit : SyncLimits]
  /\ syncIn.topLevel => syncIn.pageSynced
  /\ containerBlockID = NoID
  /\ newNoteBlockID = NoID
  /\ nextId = 1
  /\ pending = NoError
  /\ calls = <<>>
  /\ saved = <<>>
  /\ syncBatches = <<>>
  /\ syncError = NoError
  /\ PipeIdle /\ TrimIdle /\ ParseIdle /\ ColorIdle /\ ReduceIdle

AfterContainer ==
  IF syncIn.existingNoteBlockID # NoID THEN "retrieve" ELSE "create"

\* syncNoteItem up to its first request
SyncStart ==
  /\ syncPc = "start"
  /\ IF syncIn.topLevel
     THEN /\ syncError' = Err("notero-error-note-without-parent", "")
          /\ syncPc' = "failed"
          /\ UNCHANGED containerBlockID
     ELSE IF ~syncIn.pageSynced
     THEN /\ syncError' = Err("notero-error-note-parent-not-synced", "")
          /\ syncPc' = "failed"
          /\ UNCHANGED containerBlockID
     ELSE /\ containerBlockID' = syncIn.containerBlockID
          /\ syncPc' = IF syncIn.containerBlockID = NoID THEN "container"
                       ELSE AfterContainer
          /\ UNCHANGED syncError
  /\ UNCHANGED <<syncIn, newNoteBlockID, nextId, pending, calls, saved,
                 syncBatches>>
  /\ UNCHANGED <<pipeVars, trimVars, parseVars, colorVars, reduceVars>>

\* createContainerBlock for an item without a container
CreateContainerBlock ==
  /\ syncPc = "container"
  /\ \E outcome \in CreateOutcomes :
       /\ calls' = Append(calls, Call("createContainer", PageID, <<>>, outcome,
                                      IF outcome = "ok" THEN NewIDs[nextId]
                                      ELSE NoID))
       /\ IF outcome = "ok"
          THEN /\ containerBlockID' = NewIDs[nextId]
               /\ nextId' = nextId + 1
               /\ syncPc' = AfterContainer
               /\ UNCHANGED syncError
          ELSE /\ syncError' = ContainerError(outcome)
               /\ syncPc' = "failed"
               /\ UNCHANGED <<containerBlockID, nextId>>
  /\ UNCHANGED <<syncIn, newNoteBlockID, pending, saved, syncBatches>>
  /\ UNCHANGED <<pipeVars, trimVars, parseVars, colorVars, reduceVars>>

\* A variant of getEffectiveContainerBlockID that returns the parent even
\* when it is in the trash
getContainerOfAnyParent(found, container) ==
  IF found \in {"moved", "trashed"} THEN MovedParentID ELSE container

\* What getEffectiveContainerBlockID returns once it retrieved the parent of
\* the note block: the parent when it is a full block and is not in the
\* trash, else the container
getEffectiveContainerBlockID(found, container) ==
  IF found = "moved" THEN MovedParentID ELSE container

\* The call of getEffectiveContainerBlockID in syncNoteItem, up to the end of
\* its first request: the note block is under the container (or is no full
\* block, or is not under a block), is under another block, or the
\* retrieval fails
GetEffectiveContainerBlockID ==
  /\ syncPc = "retrieve"
  /\ \E found \in {"same", "other", "gone", "error"} :
       /\ calls' = Append(calls, Call("retrieve", syncIn.existingNoteBlockID,
                                      <<>>, found, NoID))
       /\ IF found \in {"gone", "error"}
          THEN syncError' = ApiError(found) /\ syncPc' = "failed"
          ELSE /\ syncPc' = IF found = "other" THEN "retrieveParent"
                            ELSE "delete"
               /\ UNCHANGED syncError
  /\ UNCHANGED <<syncIn, containerBlockID, newNoteBlockID, nextId, pending,
                 saved, syncBatches>>
  /\ UNCHANGED <<pipeVars, trimVars, parseVars, colorVars, reduceVars>>

\* Its second request, for the other block the note block is under: a full
\* block that is not in the trash, one in the trash, no full block, or the
\* retrieval fails
RetrieveParentBlock ==
  /\ syncPc = "retrieveParent"
  /\ \E found \in {"moved", "trashed", "partial", "gone", "error"} :
       /\ calls' = Append(calls, Call("retrieve", MovedParentID, <<>>, found,
                                      NoID))
       /\ IF found \in {"gone", "error"}
          THEN /\ syncError' = ApiError(found)
               /\ syncPc' = "failed"
               /\ UNCHANGED containerBlockID
          ELSE /\ containerBlockID' =
                    getEffectiveContainerBlockID(found, containerBlockID)
               /\ syncPc' = "delete"
               /\ UNCHANGED syncError
  /\ UNCHANGED <<syncIn, newNoteBlockID, nextId, pending, saved, syncBatches>>
  /\ UNCHANGED <<pipeVars, trimVars, parseVars, colorVars, reduceVars>>

DeleteNoteBlock ==
  /\ syncPc = "delete"
  /\ \E outcome \in Outcomes :
       /\ calls' = Append(calls, Call("delete", syncIn.existingNoteBlockID,
                                      <<>>, outcome, NoID))
       /\ IF outcome = "ok" \/ isArchivedOrNotFoundError(ApiError(outcome))
          THEN syncPc' = "create" /\ UNCHANGED syncError
          ELSE syncPc' = "failed" /\ syncError' = ApiError(outcome)
  /\ UNCHANGED <<syncIn, containerBlockID, newNoteBlockID, nextId, pending,
                 saved, syncBatches>>
  /\ UNCHANGED <<pipeVars, trimVars, parseVars, colorVars, reduceVars>>

\* A variant of the try statement without its finally block on a throw
leaveTryOnlyOnReturn(error) ==
  IF error = NoError THEN "save" ELSE "failed"

\* Where syncNoteItem goes on when its try statement is left, by the end of a
\* block (NoError) or by a throw: to the finally block
leaveTry(error) == "save"

\* The try block: createNoteBlock, and the test of the catch block
CreateNoteBlock ==
  /\ syncPc = "create"
  /\ \E outcome \in CreateOutcomes :
       /\ calls' = Append(calls, Call("createNote", containerBlockID, <<>>,
                                      outcome,
                                      IF outcome = "ok" THEN NewIDs[nextId]
                                      ELSE NoID))
       /\ IF outcome = "ok"
          THEN /\ newNoteBlockID' = NewIDs[nextId]
               /\ nextId' = nextId + 1
               /\ syncPc' = leaveTry(NoError)
               /\ UNCHANGED pending
          ELSE IF catchRethrows(NoteError(outcome))
          THEN /\ pending' = NoteError(outcome)
               /\ syncPc' = leaveTry(NoteError(outcome))
               /\ UNCHANGED <<newNoteBlockID, nextId>>
          ELSE /\ syncPc' = "recreate"
               /\ UNCHANGED <<newNoteBlockID, nextId, pending>>
  /\ UNCHANGED <<syncIn, containerBlockID, saved, syncBatches, syncError>>
  /\ UNCHANGED <<pipeVars, trimVars, parseVars, colorVars, reduceVars>>

\* The catch block: createContainerBlock
RecreateContainerBlock ==
  /\ syncPc = "recreate"
  /\ \E outcome \in CreateOutcomes :
       /\ calls' = Append(calls, Call("createContainer", PageID, <<>>, outcome,
                                      IF outcome = "ok" THEN NewIDs[nextId]
                                      ELSE NoID))
       /\ IF outcome = "ok"
          THEN /\ containerBlockID' = NewIDs[nextId]
               /\ nextId' = nextId + 1
               /\ syncPc' = "retry"
               /\ UNCHANGED pending
          ELSE /\ pending' = ContainerError(outcome)
               /\ syncPc' = leaveTry(ContainerError(outcome))
               /\ UNCHANGED <<containerBlockID, nextId>>
  /\ UNCHANGED <<syncIn, newNoteBlockID, saved, syncBatches, syncError>>
  /\ UNCHANGED <<pipeVars, trimVars, parseVars, colorVars, reduceVars>>

\* The catch block: createNoteBlock again
RetryCreateNoteBlock ==
  /\ syncPc = "retry"
  /\ \E outcome \in CreateOutcomes :
       /\ calls' = Append(calls, Call("createNote", containerBlockID, <<>>,
                                      outcome,
                                      IF outcome = "ok" THEN NewIDs[nextId]
                                      ELSE NoID))
       /\ IF outcome = "ok"
          THEN /\ newNoteBlockID' = NewIDs[nextId]
               /\ nextId' = nextId + 1
               /\ UNCHANGED pending
          ELSE /\ pending' = NoteError(outcome)
               /\ UNCHANGED <<newNoteBlockID, nextId>>
       /\ syncPc' = leaveTry(NoteError(outcome))
  /\ UNCHANGED <<syncIn, containerBlockID, saved, syncBatches, syncError>>
  /\ UNCHANGED <<pipeVars, trimVars, parseVars, colorVars, reduceVars>>

\* The finally block: saveSyncedNote, then the pending error is thrown
SaveSyncedNote ==
  /\ syncPc = "save"
  /\ saved' = Append(saved, [containerBlockID |-> containerBlockID,
                             noteBlockID |-> newNoteBlockID,
                             requests |-> Len(calls)])
  /\ IF pending # NoError
     THEN syncError' = pending /\ syncPc' = "failed"
     ELSE syncPc' = "build" /\ UNCHANGED syncError
  /\ UNCHANGED <<syncIn, containerBlockID, newNoteBlockID, nextId, pending,
                 calls, syncBatches>>
  /\ UNCHANGED <<pipeVars, trimVars, parseVars, colorVars, reduceVars>>

\* addNoteBlockContent up to its loop: await buildNoteBlockBatches
AwaitNoteBlockBatches ==
  /\ syncPc = "build"
  /\ LET built == NoteBlockBatches(
                    convertHtmlToBlocks(syncIn.converter, syncIn.parserThrows,
                                        syncIn.blockCount),
                    syncIn.isAnnotation, syncIn.limit)
     IN IF built.error # NoError
        THEN /\ syncError' = built.error
             /\ syncPc' = "failed"
             /\ UNCHANGED syncBatches
        ELSE /\ syncBatches' = built.batches
             /\ syncPc' = IF built.batches = <<>> THEN "done" ELSE "append"
             /\ UNCHANGED syncError
  /\ UNCHANGED <<syncIn, containerBlockID, newNoteBlockID, nextId, pending,
                 calls, saved>>
  /\ UNCHANGED <<pipeVars, trimVars, parseVars, colorVars, reduceVars>>

\* One iteration of the loop of addNoteBlockContent
AppendBatch ==
  /\ syncPc = "append"
  /\ LET i == Len(CallsOf("append")) + 1
     IN \E outcome \in Outcomes :
          /\ calls' = Append(calls, Call("append", newNoteBlockID,
                                         syncBatches[i], outcome, NoID))
          /\ IF AppendStops(outcome)
             THEN syncError' = ApiError(outcome) /\ syncPc' = "failed"
             ELSE /\ syncPc' = IF i >= Len(syncBatches) THEN "done"
                               ELSE "append"
                  /\ UNCHANGED syncError
  /\ UNCHANGED <<syncIn, containerBlockID, newNoteBlockID, nextId, pending,
                 saved, syncBatches>>
  /\ UNCHANGED <<pipeVars, trimVars, parseVars, colorVars, reduceVars>>

NextSync ==
  \/ SyncStart
  \/ CreateContainerBlock
  \/ GetEffectiveContainerBlockID
  \/ RetrieveParentBlock
  \/ DeleteNoteBlock
  \/ CreateNoteBlock
  \/ RecreateContainerBlock
  \/ RetryCreateNoteBlock
  \/ SaveSyncedNote
  \/ AwaitNoteBlockBatches
  \/ AppendBatch

SpecSync == InitSync /\ [][NextSync]_vars


----------------------------------------------------------------------------
(* Properties of syncNoteItem *)

SyncEnded == syncPc \in {"done", "failed"}

\* addNoteBlockContent has awaited buildNoteBlockBatches
ConversionAwaited ==
  saved # <<>> /\ pending = NoError /\ syncPc \in {"append", "done", "failed"}

\* C16: when the parser fails during the conversion of the note, syncNoteItem
\* throws notero-error-note-conversion-failed with the parser's error as its
\* cause, and no block sequence, empty or partial, takes the place of the
\* failure.
C16_ConversionFailureSurfaces ==
  (ConversionAwaited /\ syncIn.parserThrows) =>
    /\ syncPc = "failed"
    /\ syncError = Err("notero-error-note-conversion-failed", sParserError)
    /\ CallsOf("append") = <<>>

\* The first request that creates the note block
FirstCreate ==
  { f \in DOMAIN calls :
      /\ calls[f].op = "createNote"
      /\ \A g \in 1..(f - 1) : calls[g].op # "createNote" }

\* C17: when the first createNoteBlock fails because the container is
\* archived or not found, a container is created on the page and, once it
\* exists, createNoteBlock is called once more, on that new container; when
\* it fails otherwise, syncNoteItem throws that error and makes no further
\* request, neither for a container nor for a note block.
C17_RetryOnceOnNewContainer ==
  /\ Len(CallsOf("createNote")) <= 2
  /\ \A f \in FirstCreate :
       LET error == NoteError(calls[f].outcome)
       IN /\ (error.code = "object_not_found" /\ syncPc # "recreate") =>
               /\ Len(calls) > f
               /\ calls[f + 1].op = "createContainer"
               /\ calls[f + 1].target = PageID
               /\ (calls[f + 1].outcome = "ok" /\ syncPc # "retry") =>
                     /\ Len(calls) > f + 1
                     /\ calls[f + 2].op = "createNote"
                     /\ calls[f + 2].target = calls[f + 1].id
                     /\ calls[f + 2].target # calls[f].target
                     /\ Len(CallsOf("createNote")) = 2
               /\ calls[f + 1].outcome # "ok" =>
                     Len(CallsOf("createNote")) = 1
          /\ (error # NoError /\ error.code # "object_not_found") =>
               /\ Len(calls) = f
               /\ syncPc \in {"save", "failed"}
               /\ syncPc = "failed" => syncError = error
          /\ error = NoError => Len(CallsOf("createNote")) = 1

\* The note block was created at the second attempt, in a new container, and
\* the sync went on to its end.
C17_Witness ==
  /\ syncPc = "done"
  /\ Len(CallsOf("createNote")) = 2
  /\ CallsOf("createNote")[1].outcome = "gone"
  /\ CallsOf("createNote")[2].outcome = "ok"
  /\ CallsOf("createNote")[2].target = containerBlockID
  /\ containerBlockID # syncIn.containerBlockID

\* C18: the append requests of addNoteBlockContent are for the batches in
\* their order, one each, on the note block; each is made after the one
\* before it succeeded; after one fails no other is made and syncNoteItem
\* throws its error; at the end of a sync without error every batch has been
\* appended.
C18_AppendsInOrderUntilFailure ==
  LET appends == CallsOf("append")
  IN /\ Len(appends) <= Len(syncBatches)
     /\ \A j \in DOMAIN appends :
          /\ appends[j].children = syncBatches[j]
          /\ appends[j].target = newNoteBlockID
          /\ j < Len(appends) => appends[j].outcome = "ok"
          /\ appends[j].outcome # "ok" =>
               syncPc = "failed" /\ syncError = ApiError(appends[j].outcome)
     /\ syncPc = "done" => Len(appends) = Len(syncBatches)
     /\ syncPc = "append" => Len(appends) < Len(syncBatches)

\* The second of three batches failed and the third was never sent.
C18_Witness ==
  /\ syncPc = "failed"
  /\ Len(syncBatches) = 3
  /\ Len(CallsOf("append")) = 2
  /\ CallsOf("append")[1].outcome = "ok"
  /\ CallsOf("append")[2].outcome = "error"
  /\ CallsOf("append")[2].children = syncBatches[2]


----------------------------------------------------------------------------
(* convertChildNodes and convertParentElement: the reduction of the child  *)
(* nodes of a list item                                                    *)

\* The most child nodes of the list item
MaxChildNodes == 3

\* The source holds the converter twice: in the one copy convertNode is a
\* function, in the other an async function
Copies == {"sync", "async"}

\* The kinds of result of the content-result module
richTextResult(richText) ==
  [kind |-> "richText", richText |-> richText, block |-> Undefined]
blockResult(block) == [kind |-> "block", richText |-> <<>>, block |-> block]
listResult(results) ==
  [kind |-> "list", richText |-> <<>>, block |-> Undefined,
   results |-> results]
isRichTextResult(result) == result.kind = "richText"
isBlockResult(result) == result.kind = "block"
isListResult(result) == result.kind = "list"

\* What convertNode returns: nothing, or the Promise of an async function,
\* which has no block, results or richText property
NoResult == [kind |-> "undefined", richText |-> <<>>, block |-> Undefined]
PromiseResult == [kind |-> "promise", richText |-> <<>>, block |-> Undefined]

\* A TypeError thrown while the child nodes are converted
TypeError == [kind |-> "TypeError", richText |-> <<>>, block |-> Undefined]

\* convertNode as convertChildNodes calls it, with the child node itself
\* and not with the parsed node: the switch reads the type property of the
\* child node. For 'block' convertBlockElement and for 'list'
\* convertListElement read node.element, which a child node does not have,
\* and throw a TypeError; for any other value the switch returns nothing.
\* The async function returns a Promise whatever the node is: the Promise is
\* rejected with the TypeError or fulfilled with undefined, and nothing
\* awaits it
convertNode(copy, node) ==
  IF copy = "async" THEN PromiseResult
  ELSE CASE node.type = "block" -> TypeError
         [] node.type = "list" -> TypeError
         [] OTHER -> NoResult

\* How convertChildNodes ends: with the list of results, or with the error
Returned(results) == [threw |-> FALSE, results |-> results]
Thrown == [threw |-> TRUE, results |-> <<>>]

\* The callback of the reduce of convertChildNodes. A Promise is neither
\* missing nor a block result nor a list result; after a rich text result the
\* spread of its richText, which it does not have, would throw
reduceCallback(copy, results, childNode) ==
  LET result == convertNode(copy, childNode)
  IN IF result = TypeError THEN Thrown
     ELSE IF result = NoResult THEN Returned(results)
     ELSE IF isBlockResult(result) THEN Returned(Append(results, result))
     ELSE IF isListResult(result) THEN Returned(results \o result.results)
     ELSE IF results # <<>> /\ isRichTextResult(results[Len(results)])
       THEN IF isRichTextResult(result)
            THEN Returned(SubSeq(results, 1, Len(results) - 1)
                            \o <<richTextResult(
                                   results[Len(results)].richText
                                     \o result.richText)>>)
            ELSE Thrown
     ELSE Returned(Append(results, result))

\* The reduce over the first k child nodes, from []; an error ends it
RECURSIVE ChildNodesUpTo(_, _, _)
ChildNodesUpTo(copy, childNodes, k) ==
  IF k = 0 THEN Returned(<<>>)
  ELSE LET reduced == ChildNodesUpTo(copy, childNodes, k - 1)
       IN IF reduced.threw THEN Thrown
          ELSE reduceCallback(copy, reduced.results, childNodes[k])

\* Array.from(node.childNodes).reduce(..., [])
convertChildNodes(copy, node) ==
  ChildNodesUpTo(copy, node.kids, Len(node.kids))

\* let rich_text = []; let children = undefined; threw is set when the
\* callback throws
EmptyParent ==
  [threw |-> FALSE, rich_text |-> <<>>, hasChildren |-> FALSE,
   children |-> <<>>]

\* isBlockType(type, value) of the notion-types module, type in value: the
\* in operator throws a TypeError when value is undefined
isBlockType(type, value) == value.type = type

\* children = [...(children || []), childBlock]
AppendChildBlock(state, childBlock) ==
  [state EXCEPT !.hasChildren = TRUE,
                !.children = Append(state.children, childBlock)]

\* The end of the forEach callback, from if (!children && ...) on: the child
\* block gives the parent its rich text and children, or becomes its last
\* child; isBlockType throws for the block property a Promise does not have
AddChildBlock(state, childBlock) ==
  IF ~state.hasChildren /\ Len(state.rich_text) = 0
  THEN IF childBlock = Undefined THEN [state EXCEPT !.threw = TRUE]
       ELSE IF isBlockType("paragraph", childBlock)
         THEN [state EXCEPT !.rich_text = childBlock.rich_text,
                            !.hasChildren = childBlock.hasChildren,
                            !.children = childBlock.children]
       ELSE AppendChildBlock(state, childBlock)
  ELSE AppendChildBlock(state, childBlock)

\* The callback for a rich text result that is not empty once trimmed
AddRichText(state, trimmedRichText) ==
  IF ~state.hasChildren
  THEN [state EXCEPT !.rich_text = state.rich_text \o trimmedRichText]
  ELSE AddChildBlock(state, paragraphBlock(trimmedRichText))

\* The forEach callback
forEachCallback(state, result) ==
  IF isRichTextResult(result)
  THEN IF Len(trimRichText(result.richText)) = 0 THEN state
       ELSE AddRichText(state, trimRichText(result.richText))
  ELSE AddChildBlock(state, result.block)

\* rich_text and children after the first k results; an error ends the
\* forEach
RECURSIVE ReduceUpTo(_, _)
ReduceUpTo(results, k) ==
  IF k = 0 THEN EmptyParent
  ELSE LET state == ReduceUpTo(results, k - 1)
       IN IF state.threw THEN state
          ELSE forEachCallback(state, results[k])

\* return blockResult(keyValue(blockType, {rich_text, children, color})),
\* unless the forEach was left by an error
ParentBlock(parsed, end) ==
  IF end.threw THEN TypeError
  ELSE blockResult(Blk(parsed.blockType, end.rich_text, parsed.color,
                       end.hasChildren, end.children, <<>>))

\* convertParentElement for the parsed element: its child nodes are
\* converted, and their results are reduced to the rich text and the
\* children of the block
convertParentElement(copy, parsed) ==
  LET childResults == convertChildNodes(copy, parsed.element)
  IN IF childResults.threw THEN TypeError
     ELSE ParentBlock(parsed, ReduceUpTo(childResults.results,
                                         Len(childResults.results)))

\* The child nodes of the inputs: a text node, <p>, <h1>, a list of one item,
\* <a type="block"> and <ol type="list">. The text of the k-th child node is
\* the digit k
ChildKinds == {"text", "paragraph", "heading", "list", "blockAnchor",
               "typedList"}

ChildText(k) == <<DigitChars[k + 1]>>

ChildNodeOfKind(kind, k) ==
  CASE kind = "text" -> Txt(ChildText(k))
    [] kind = "paragraph" -> El("P", {}, <<Txt(ChildText(k))>>)
    [] kind = "heading" -> El("H1", {}, <<Txt(ChildText(k))>>)
    [] kind = "list" -> El("UL", {}, <<El("LI", {}, <<Txt(ChildText(k))>>)>>)
    [] kind = "blockAnchor" -> ElType("A", "block", <<Txt(ChildText(k))>>)
    [] kind = "typedList" -> ElType("OL", "list", <<>>)

ChildNodeInputs ==
  { [k \in 1..Len(kinds) |-> ChildNodeOfKind(kinds[k], k)] :
      kinds \in SeqsUpTo(ChildKinds, MaxChildNodes) }

\* The list items of the inputs, as convertListElement finds them: plain or
\* with a background color, in a bulleted or a numbered list
ListItemInputs ==
  { [node |-> li, parentTag |-> tag, next |-> NoNode] :
      li \in { El("LI", {}, kids) : kids \in ChildNodeInputs }
             \cup { ElBg("LI", {}, hexYellow, kids) :
                      kids \in ChildNodeInputs },
      tag \in {"OL", "UL"} }

InitReduce ==
  /\ reducePc = "input"
  /\ reduceIn \in [copy : Copies, item : ListItemInputs]
  /\ reduceOut = <<>>
  /\ PipeIdle /\ TrimIdle /\ ParseIdle /\ ColorIdle /\ SyncIdle

\* convertListElement hands the parsed list item to convertParentElement
ApplyReduce ==
  /\ reducePc = "input"
  /\ reduceOut' = convertParentElement(reduceIn.copy, parseNode(reduceIn.item))
  /\ reducePc' = "reduced"
  /\ UNCHANGED reduceIn
  /\ UNCHANGED <<pipeVars, trimVars, parseVars, colorVars, syncVars>>

SpecReduce == InitReduce /\ [][ApplyReduce]_vars

InitChildren ==
  /\ reducePc = "children"
  /\ reduceIn \in [copy : Copies,
                   node : { El("LI", {}, kids) : kids \in ChildNodeInputs }]
  /\ reduceOut = <<>>
  /\ PipeIdle /\ TrimIdle /\ ParseIdle /\ ColorIdle /\ SyncIdle

ApplyChildren ==
  /\ reducePc = "children"
  /\ reduceOut' = convertChildNodes(reduceIn.copy, reduceIn.node)
  /\ reducePc' = "joined"
  /\ UNCHANGED reduceIn
  /\ UNCHANGED <<pipeVars, trimVars, parseVars, colorVars, syncVars>>

SpecChildren == InitChildren /\ [][ApplyChildren]_vars

----------------------------------------------------------------------------
(* Properties of convertParentElement *)

Reduced == reducePc = "reduced"

\* The child nodes of the list item, and the k-th as parseNode classifies it
ChildNodesOfItem == reduceIn.item.node.kids

Classified(k) ==
  parseNode([node |-> ChildNodesOfItem[k],
             parentTag |-> reduceIn.item.node.tag,
             next |-> IF k < Len(ChildNodesOfItem) THEN ChildNodesOfItem[k + 1]
                      ELSE NoNode])

\* The k-th child node is text, it is inline content, and it is a block: the
\* block it converts to
IsText(k) == Classified(k).type = "text"
IsInline(k) == Classified(k).type \in {"text", "rich_text"}
IsBlock(k) == Classified(k).type = "block"
ChildBlockOf(k) == RegularBlock(Classified(k))

\* Only lists without items come before the k-th child node: the list item
\* has neither rich text nor children when the k-th child arrives
NothingBefore(k) ==
  \A j \in 1..(k - 1) :
     Classified(j).type = "list" /\ ChildNodesOfItem[j].kids = <<>>

\* The child block is a paragraph with rich text only and arrives first
Hoisted(k) ==
  /\ IsBlock(k) /\ NothingBefore(k)
  /\ ChildBlockOf(k).type = "paragraph" /\ ~ChildBlockOf(k).hasChildren

\* The child blocks that are not hoisted, in document order
AppendedChildNodes ==
  SelectSeq([k \in DOMAIN ChildNodesOfItem |-> k],
            LAMBDA k : IsBlock(k) /\ ~Hoisted(k))

\* C19 as stated, the children converted one at a time via classification: a
\* child block gives the list item its rich text only when the item has
\* neither children nor rich text yet and the child is a paragraph with rich
\* text only; every other child block becomes the last child of the item, so
\* these child blocks are among the children of the finished block, in
\* document order.
C19_HoistOnlyTrivialParagraph ==
  Reduced =>
    /\ isBlockResult(reduceOut)
    /\ \A k \in DOMAIN ChildNodesOfItem :
         Hoisted(k) =>
           SubSeq(reduceOut.block.rich_text, 1,
                  Len(ChildBlockOf(k).rich_text)) = ChildBlockOf(k).rich_text
    /\ SelectSeq(reduceOut.block.children,
                 LAMBDA b : \E k \in DOMAIN ChildNodesOfItem :
                               IsBlock(k) /\ b = ChildBlockOf(k))
         = [i \in DOMAIN AppendedChildNodes |->
              ChildBlockOf(AppendedChildNodes[i])]

\* No child block before the k-th child node became a child of the list item
NoChildrenBefore(k) ==
  \A j \in 1..(k - 1) :
     \/ Hoisted(j)
     \/ IsInline(j)
     \/ Classified(j).type = "list" /\ ChildNodesOfItem[j].kids = <<>>

\* The place of a span in the document: the number of its child node
PlaceOfSpan(span) == CHOOSE i \in 0..9 : DigitChars[i + 1] = span.content[1]

\* The places of the content of a block of the inputs
PlacesIn(block) ==
  { PlaceOfSpan(block.rich_text[i]) : i \in DOMAIN block.rich_text }

\* C20 as stated, the children converted one at a time via classification:
\* the text of a child node is added to the list item's own rich text while
\* the item has no children, and becomes a new plain paragraph among its
\* children once it has; so in the finished block all of the item's own rich
\* text comes before, in document order, all content of its children.
C20_RichTextBeforeChildren ==
  Reduced =>
    /\ isBlockResult(reduceOut)
    /\ \A k \in DOMAIN ChildNodesOfItem :
         IsText(k) =>
           IF NoChildrenBefore(k)
           THEN \E i \in DOMAIN reduceOut.block.rich_text :
                   reduceOut.block.rich_text[i] = TextSpan(ChildText(k))
           ELSE /\ \A i \in DOMAIN reduceOut.block.rich_text :
                     reduceOut.block.rich_text[i] # TextSpan(ChildText(k))
                /\ \E j \in DOMAIN reduceOut.block.children :
                     /\ reduceOut.block.children[j].type = "paragraph"
                     /\ \E i \in DOMAIN reduceOut.block.children[j].rich_text :
                          reduceOut.block.children[j].rich_text[i]
                            = TextSpan(ChildText(k))
    /\ \A i \in DOMAIN reduceOut.block.rich_text :
         \A j \in DOMAIN reduceOut.block.children :
           \A place \in PlacesIn(reduceOut.block.children[j]) :
             PlaceOfSpan(reduceOut.block.rich_text[i]) < place

----------------------------------------------------------------------------
(* Properties of convertChildNodes *)

\* The results of convertNode for the child nodes of the input
ChildResults ==
  [k \in DOMAIN reduceIn.node.kids |->
     convertNode(reduceIn.copy, reduceIn.node.kids[k])]

\* The spans and blocks of one result, in order: the spans of rich text, the
\* block of a block result, the blocks of the items of a list
Pieces(result) ==
  CASE result.kind = "richText" ->
         [s \in 1..Len(result.richText) |->
            [span |-> result.richText[s], block |-> Undefined]]
    [] result.kind = "block" ->
         <<[span |-> TextSpan(<<>>), block |-> result.block]>>
    [] result.kind = "list" ->
         [b \in 1..Len(result.results) |->
            [span |-> TextSpan(<<>>), block |-> result.results[b].block]]
    [] OTHER -> <<>>

AllPieces(results) == Flat([k \in 1..Len(results) |-> Pieces(results[k])])

\* C21 as stated: the list convertChildNodes returns holds block results and
\* rich text results only, no two rich text results follow each other, and
\* its spans and blocks are those of the results of the child nodes, the
\* items of a list in the place of the list, in document order, none dropped
\* and none twice.
C21_ChildResultsJoinedInOrder ==
  (reducePc = "joined" /\ ~reduceOut.threw) =>
    /\ \A k \in DOMAIN reduceOut.results :
         \/ isBlockResult(reduceOut.results[k])
         \/ isRichTextResult(reduceOut.results[k])
    /\ \A k \in 1..(Len(reduceOut.results) - 1) :
         ~(isRichTextResult(reduceOut.results[k])
           /\ isRichTextResult(reduceOut.results[k + 1]))
    /\ AllPieces(reduceOut.results) = AllPieces(ChildResults)

----------------------------------------------------------------------------
(* Properties of parseNode: classes before tags *)

\* C24: an element with the highlight class is classified as rich text with
\* the yellow background and no other annotation, an element with the
\* citation class and without the highlight class as rich text without
\* annotations, whatever its tag; only an element with neither class is
\* classified by its tag.
C24_ClassesBeforeTags ==
  ParsedElement =>
    /\ "highlight" \in parseIn.node.cls =>
         /\ parseOut.type = "rich_text"
         /\ parseOut.color = "yellow_background"
         /\ parseOut.flags = {}
    /\ ("citation" \in parseIn.node.cls /\ "highlight" \notin parseIn.node.cls) =>
         /\ parseOut.type = "rich_text"
         /\ parseOut.color = ""
         /\ parseOut.flags = {}

----------------------------------------------------------------------------
(* Properties of trimRichText: the frame and repeated trimming *)

\* removed followed by kept is whole, removed is white space only
IsSpaces(s) == \A i \in DOMAIN s : IsSpace(s[i])

\* after is before without white space at its start
LeadingRemoved(before, after) ==
  /\ after.kind = "text" /\ before.kind = "text"
  /\ after = [before EXCEPT !.content = after.content]
  /\ after.content # <<>> /\ ~IsSpace(after.content[1])
  /\ \E n \in 0..Len(before.content) :
        /\ IsSpaces(SubSeq(before.content, 1, n))
        /\ after.content = SubSeq(before.content, n + 1, Len(before.content))

\* after is before without white space at its end
TrailingRemoved(before, after) ==
  /\ after.kind = "text" /\ before.kind = "text"
  /\ after = [before EXCEPT !.content = after.content]
  /\ after.content # <<>> /\ ~IsSpace(after.content[Len(after.content)])
  /\ \E n \in 0..Len(before.content) :
        /\ IsSpaces(SubSeq(before.content, n + 1, Len(before.content)))
        /\ after.content = SubSeq(before.content, 1, n)

\* A text span of white space only
Blank(span) == span.kind = "text" /\ IsSpaces(span.content)

\* C25: of two or more spans trimRichText keeps the interior spans as they
\* are and where they are, keeps every span that is no text span, takes
\* leading white space only from the first span and trailing white space only
\* from the last, and drops the first or the last span when nothing is left
\* of it; the empty sequence is returned as it is.
C25_OnlyOuterSpansChange ==
  Trimmed =>
    /\ trimIn = <<>> => trimOut = <<>>
    /\ Len(trimIn) >= 2 =>
         LET n == Len(trimIn)
             lead == IF Blank(trimIn[1]) THEN 0 ELSE 1
             tail == IF Blank(trimIn[n]) THEN 0 ELSE 1
         IN /\ Len(trimOut) = lead + (n - 2) + tail
            /\ \A k \in 2..(n - 1) : trimOut[lead + k - 1] = trimIn[k]
            /\ lead = 1 =>
                 IF trimIn[1].kind # "text" THEN trimOut[1] = trimIn[1]
                 ELSE LeadingRemoved(trimIn[1], trimOut[1])
            /\ tail = 1 =>
                 IF trimIn[n].kind # "text"
                 THEN trimOut[Len(trimOut)] = trimIn[n]
                 ELSE TrailingRemoved(trimIn[n], trimOut[Len(trimOut)])

\* A blank first span was dropped, the interior equation and the last span's
\* leading space were kept.
C25_Witness ==
  /\ Trimmed
  /\ trimIn = <<TextSpan(<<sp>>), EquationSpan(<<"x">>), TextSpan(sYou)>>
  /\ trimOut = <<EquationSpan(<<"x">>), TextSpan(<<sp, "y", "o", "u">>)>>

\* C30: trimming a trimmed sequence changes nothing: the first span of the
\* result, when it is text, starts with no white space and the last, when it
\* is text, ends with none, also when the first or last span of the input was
\* white space only and was dropped.
C30_TrimIsIdempotent ==
  Trimmed =>
    /\ trimRichText(trimOut) = trimOut
    /\ (trimOut # <<>> /\ trimOut[1].kind = "text") =>
         ~IsSpace(trimOut[1].content[1])
    /\ (trimOut # <<>> /\ trimOut[Len(trimOut)].kind = "text") =>
         ~IsSpace(trimOut[Len(trimOut)].content[
                    Len(trimOut[Len(trimOut)].content)])


----------------------------------------------------------------------------
(* Properties of the annotation extraction: comment and tags *)

\* The number of # in s
RECURSIVE CountHash(_)
CountHash(s) ==
  IF s = <<>> THEN 0
  ELSE (IF Head(s) = "#" THEN 1 ELSE 0) + CountHash(Tail(s))

\* Paragraph i is converted by the highlight branch
IsHighlightTask(i) ==
  /\ querySelector(tasks[i].element.node, ByClass("highlight")) # NoNode
  /\ querySelector(tasks[i].element.node, ByTag("IMG")) = NoNode

\* C23: when the text after the citation has k #, the paragraph of the
\* annotation is the comment span alone for k = 0 and otherwise the comment
\* span followed by 2k-1 spans, tag spans at the odd places and spans of one
\* space between them; each tag span has the code annotation and the content
\* # followed by its trimmed fragment.
C23_CommentThenTags ==
  (Converted /\ isAnnotation) =>
    \A i \in 1..Len(tasks) :
      IsHighlightTask(i) =>
        LET text == Trim(TextAfterCitation(tasks[i].element.node))
            k == CountHash(text)
            fragments == SplitHash(text)
            spans == Segment(i)[2].rich_text
        IN /\ Segment(i)[2].type = "paragraph"
           /\ Len(fragments) = k + 1
           /\ Len(spans) = IF k = 0 THEN 1 ELSE 2 * k
           /\ spans[1] = TextSpan(Trim(fragments[1]) \o <<nl>>)
           /\ \A j \in 1..k :
                /\ spans[2 * j].kind = "text"
                /\ spans[2 * j].flags = {"code"}
                /\ spans[2 * j].content = <<"#">> \o Trim(fragments[j + 1])
           /\ \A j \in 1..(k - 1) : spans[2 * j + 1] = TextSpan(<<sp>>)

\* A paragraph with the comment c and the three tags #a, # and #b was
\* converted.
C23_Witness ==
  /\ Converted /\ isAnnotation
  /\ \E i \in 1..Len(tasks) :
       /\ tasks[i].element.node = PTags
       /\ Segment(i)[2].rich_text =
            << TextSpan(<<"c", nl>>), CodeSpan(<<"#", "a">>), TextSpan(<<sp>>),
               CodeSpan(<<"#">>), TextSpan(<<sp>>), CodeSpan(<<"#", "b">>) >>


----------------------------------------------------------------------------
(* syncNoteItem: the note block of an earlier sync *)

\* The top-level container of the item: the saved one, or the one the first
\* request created on the page
TopLevelContainer ==
  IF syncIn.containerBlockID # NoID THEN syncIn.containerBlockID
  ELSE calls[1].id

\* C26: when a block ID is saved for the note, the request that deletes that
\* block is made and has ended before the request that appends the new note
\* block, and the new note block is appended to the parent of the old one
\* when that parent is another block than the container and is not in the
\* trash, else to the top-level container; when no block ID is saved, no
\* block is retrieved or deleted and the new note block is appended to the
\* top-level container.
C26_DeleteBeforeAppendToEffectiveContainer ==
  /\ syncIn.existingNoteBlockID = NoID =>
       \A c \in DOMAIN calls : calls[c].op \notin {"retrieve", "delete"}
  /\ \A f \in FirstCreate :
       LET retrieves == { r \in 1..(f - 1) : calls[r].op = "retrieve" }
       IN IF syncIn.existingNoteBlockID # NoID
          THEN /\ f > 2
               /\ calls[f - 1].op = "delete"
               /\ calls[f - 1].target = syncIn.existingNoteBlockID
               /\ calls[f - 1].outcome \in {"ok", "gone"}
               /\ Len(CallsOf("delete")) = 1
               /\ \E r \in retrieves :
                     calls[r].target = syncIn.existingNoteBlockID
               /\ \A r \in retrieves : r < f - 1
               /\ calls[f].target =
                    IF \E r \in retrieves :
                          /\ calls[r].target = MovedParentID
                          /\ calls[r].outcome = "moved"
                    THEN MovedParentID
                    ELSE TopLevelContainer
          ELSE calls[f].target = TopLevelContainer

\* The old note block was found under another block than the container, was
\* deleted, and the new note block was appended to that other block.
C26_Witness ==
  /\ syncPc = "done"
  /\ syncIn.existingNoteBlockID = SavedNoteID
  /\ Len(CallsOf("retrieve")) = 2
  /\ CallsOf("retrieve")[1].outcome = "other"
  /\ CallsOf("retrieve")[2].target = MovedParentID
  /\ CallsOf("retrieve")[2].outcome = "moved"
  /\ CallsOf("delete")[1].outcome = "ok"
  /\ CallsOf("createNote")[1].target = MovedParentID
  /\ CallsOf("createNote")[1].outcome = "ok"


----------------------------------------------------------------------------
(* syncNoteItem: what it saves *)

\* The requests that try to create the note block: createNoteBlock, and the
\* createContainerBlock of the catch block
CreationAttempts ==
  { c \in DOMAIN calls :
      \/ calls[c].op = "createNote"
      \/ /\ calls[c].op = "createContainer"
         /\ \E f \in FirstCreate : f < c }

LastCreationAttempt ==
  CHOOSE c \in CreationAttempts : \A d \in CreationAttempts : d <= c

\* C29: once syncNoteItem has called createNoteBlock and left its try
\* statement, saveSyncedNote has been called exactly once, after the last
\* request of the try statement and before any append of content, with the
\* id of the new note block when it was created and with no id when the
\* creation of the note block or of the new container threw; before
\* createNoteBlock is called nothing is saved; and for a note without parent
\* item or with a parent item that is not synced nothing is saved and no
\* request is made.
C29_SavesOnceAfterCreation ==
  /\ Len(saved) <= 1
  /\ CreationAttempts = {} => saved = <<>>
  /\ (syncIn.topLevel \/ ~syncIn.pageSynced) => (calls = <<>> /\ saved = <<>>)
  /\ (CreationAttempts # {} /\ syncPc \notin {"recreate", "retry", "save"}) =>
       LET last == calls[LastCreationAttempt]
       IN /\ Len(saved) = 1
          /\ saved[1].requests = LastCreationAttempt
          /\ \A c \in DOMAIN calls :
               calls[c].op = "append" => c > saved[1].requests
          /\ saved[1].noteBlockID =
               IF last.op = "createNote" /\ last.outcome = "ok" THEN last.id
               ELSE NoID
          /\ saved[1].noteBlockID = NoID => syncPc = "failed"

\* The container was gone, the creation of a new one failed, and
\* saveSyncedNote was called without a note block ID before the error left.
C29_Witness ==
  /\ syncPc = "failed"
  /\ Len(calls) = 2
  /\ calls[1].op = "createNote" /\ calls[1].outcome = "gone"
  /\ calls[2].op = "createContainer" /\ calls[2].outcome = "error"
  /\ saved = <<[containerBlockID |-> SavedContainerID, noteBlockID |-> NoID,
               requests |-> 2]>>
  /\ syncError = ContainerError("error")


----------------------------------------------------------------------------
(* The earlier definition of syncNoteItem, whose createNoteBlock adds the
   content of the note itself *)

\* buildNoteBlockBatches of the earlier definition: the synchronous conversion
\* and the batching
buildNoteBlockBatches(parserThrows, n, lim) ==
  IF parserThrows
  THEN [error |-> Err("notero-error-note-conversion-failed", sParserError),
        batches |-> <<>>]
  ELSE [error |-> NoError, batches |-> Batches(NumberedBlocks(n), lim)]

InitSyncV1 ==
  /\ syncPc = "start"
  /\ syncIn \in [topLevel : BOOLEAN, pageSynced : BOOLEAN,
                 containerBlockID : {NoID, SavedContainerID},
                 existingNoteBlockID : {NoID, SavedNoteID},
                 parserThrows : BOOLEAN,
                 blockCount : 1..MaxSyncBlocks, limit : SyncLimits]
  /\ syncIn.topLevel => syncIn.pageSynced
  /\ containerBlockID = NoID
  /\ newNoteBlockID = NoID
  /\ nextId = 1
  /\ pending = NoError
  /\ calls = <<>>
  /\ saved = <<>>
  /\ syncBatches = <<>>
  /\ syncError = NoError
  /\ PipeIdle /\ TrimIdle /\ ParseIdle /\ ColorIdle /\ ReduceIdle

\* The last request for a note block
LastCreate ==
  CHOOSE c \in DOMAIN calls :
    /\ calls[c].op = "createNote"
    /\ \A d \in DOMAIN calls : calls[d].op = "createNote" => d <= c

\* createNoteBlock throws: in the try block the catch block tests the error,
\* in the catch block the error leaves the try statement
CreateNoteBlockThrows(error, retrying) ==
  IF ~retrying /\ ~catchRethrows(error)
  THEN syncPc' = "recreate" /\ UNCHANGED pending
  ELSE pending' = error /\ syncPc' = leaveTry(error)

\* createNoteBlock, in the try block and in the catch block: the request for
\* the toggle, then addNoteBlockContent up to its first request
CreateNoteBlockWithContent ==
  /\ syncPc \in {"create", "retry"}
  /\ \E outcome \in CreateOutcomes :
       LET built == buildNoteBlockBatches(syncIn.parserThrows,
                                          syncIn.blockCount, syncIn.limit)
           error == IF outcome # "ok" THEN NoteError(outcome) ELSE built.error
       IN /\ calls' = Append(calls, Call("createNote", containerBlockID, <<>>,
                                         outcome,
                                         IF outcome = "ok" THEN NewIDs[nextId]
                                         ELSE NoID))
          /\ nextId' = IF outcome = "ok" THEN nextId + 1 ELSE nextId
          /\ syncBatches' = IF outcome = "ok" THEN built.batches
                            ELSE syncBatches
          /\ IF error # NoError
             THEN /\ CreateNoteBlockThrows(error, syncPc = "retry")
                  /\ UNCHANGED newNoteBlockID
             ELSE IF built.batches = <<>>
             THEN /\ newNoteBlockID' = NewIDs[nextId]
                  /\ syncPc' = leaveTry(NoError)
                  /\ UNCHANGED pending
             ELSE /\ syncPc' = "content"
                  /\ UNCHANGED <<newNoteBlockID, pending>>
  /\ UNCHANGED <<syncIn, containerBlockID, saved, syncError>>
  /\ UNCHANGED <<pipeVars, trimVars, parseVars, colorVars, reduceVars>>

\* One iteration of the loop of addNoteBlockContent called by createNoteBlock
AppendBatchInCreate ==
  /\ syncPc = "content"
  /\ LET created == calls[LastCreate].id
         i == Len(calls) - LastCreate + 1
     IN \E outcome \in Outcomes :
          /\ calls' = Append(calls, Call("append", created, syncBatches[i],
                                         outcome, NoID))
          /\ IF AppendStops(outcome)
             THEN /\ CreateNoteBlockThrows(ApiError(outcome),
                                           Len(CallsOf("createNote")) > 1)
                  /\ UNCHANGED newNoteBlockID
             ELSE IF i >= Len(syncBatches)
             THEN /\ newNoteBlockID' = created
                  /\ syncPc' = leaveTry(NoError)
                  /\ UNCHANGED pending
             ELSE /\ syncPc' = "content"
                  /\ UNCHANGED <<newNoteBlockID, pending>>
  /\ UNCHANGED <<syncIn, containerBlockID, nextId, saved, syncBatches,
                 syncError>>
  /\ UNCHANGED <<pipeVars, trimVars, parseVars, colorVars, reduceVars>>

\* addNoteBlockContent called by syncNoteItem after the try statement, up to
\* its loop
BuildNoteBlockBatchesAgain ==
  /\ syncPc = "build"
  /\ LET built == buildNoteBlockBatches(syncIn.parserThrows,
                                        syncIn.blockCount, syncIn.limit)
     IN IF built.error # NoError
        THEN /\ syncError' = built.error
             /\ syncPc' = "failed"
             /\ UNCHANGED syncBatches
        ELSE /\ syncBatches' = built.batches
             /\ syncPc' = IF built.batches = <<>> THEN "done" ELSE "append"
             /\ UNCHANGED syncError
  /\ UNCHANGED <<syncIn, containerBlockID, newNoteBlockID, nextId, pending,
                 calls, saved>>
  /\ UNCHANGED <<pipeVars, trimVars, parseVars, colorVars, reduceVars>>

\* One iteration of its loop
AppendBatchAgain ==
  /\ syncPc = "append"
  /\ LET i == Len(calls) - LastCreate - Len(syncBatches) + 1
     IN \E outcome \in Outcomes :
          /\ calls' = Append(calls, Call("append", newNoteBlockID,
                                         syncBatches[i], outcome, NoID))
          /\ IF AppendStops(outcome)
             THEN syncError' = ApiError(outcome) /\ syncPc' = "failed"
             ELSE /\ syncPc' = IF i >= Len(syncBatches) THEN "done"
                               ELSE "append"
                  /\ UNCHANGED syncError
  /\ UNCHANGED <<syncIn, containerBlockID, newNoteBlockID, nextId, pending,
                 saved, syncBatches>>
  /\ UNCHANGED <<pipeVars, trimVars, parseVars, colorVars, reduceVars>>

NextSyncV1 ==
  \/ SyncStart
  \/ CreateContainerBlock
  \/ GetEffectiveContainerBlockID
  \/ RetrieveParentBlock
  \/ DeleteNoteBlock
  \/ CreateNoteBlockWithContent
  \/ AppendBatchInCreate
  \/ RecreateContainerBlock
  \/ SaveSyncedNote
  \/ BuildNoteBlockBatchesAgain
  \/ AppendBatchAgain

SpecSyncV1 == InitSyncV1 /\ [][NextSyncV1]_vars

\* The requests that append content to the note block syncNoteItem created
ContentAppends ==
  SelectSeq(calls, LAMBDA c : c.op = "append" /\ c.target = newNoteBlockID)

\* C28: at the end of a sync without error the requests that appended
\* content to the new note block are one for each batch, in the order of the
\* batches, and no batch was appended to it twice.
C28_EachBatchAppendedOnce ==
  syncPc = "done" =>
    ContentAppends = [j \in 1..Len(syncBatches) |->
                        Call("append", newNoteBlockID, syncBatches[j], "ok",
                             NoID)]


----------------------------------------------------------------------------
(* uploadToImgur: the persisted cache under overlapping uploads *)

\* The paragraphs whose upload succeeded
Uploaded == { i \in DOMAIN tasks : tasks[i].upload = "ok" }

\* C27: when the uploads of two files with different hashes overlap and both
\* succeed, the persisted cache holds the entry of each of them.
C27_NoCacheEntryLost ==
  \A i, j \in Uploaded :
    tasks[i].hash # tasks[j].hash =>
      /\ CacheEntries(prefCache, tasks[i].hash) # {}
      /\ CacheEntries(prefCache, tasks[j].hash) # {}


----------------------------------------------------------------------------
(* convertListElement *)

\* The most child nodes of the list element
MaxItems == 3

\* One of the results is the error
Throws(results) == \E k \in DOMAIN results : results[k] = TypeError

\* The test of the map callback of convertListElement;
\* blockType.endsWith('list_item')
isListItem(parsedChild) ==
  /\ parsedChild.type = "block"
  /\ parsedChild.supportsChildren
  /\ parsedChild.blockType \in {"bulleted_list_item", "numbered_list_item"}

\* node.element.children of the list element, each with the tag of its parent
\* and its next sibling
ElementChildren(element) ==
  SelectSeq([i \in 1..Len(element.kids) |->
               [node |-> element.kids[i], parentTag |-> element.tag,
                next |-> IF i < Len(element.kids) THEN element.kids[i + 1]
                         ELSE NoNode]],
            LAMBDA e : isHTMLElement(e.node))

\* The map callback of convertListElement, of the copy in which convertNode
\* is a function
ListItemResult(e) ==
  LET parsedChild == parseNode(e)
  IN IF isListItem(parsedChild)
     THEN convertParentElement("sync", parsedChild)
     ELSE NoResult

\* The error of a map callback leaves convertListElement
convertListElement(element) ==
  LET children == ElementChildren(element)
      mapped == [i \in 1..Len(children) |-> ListItemResult(children[i])]
  IN IF Throws(mapped)
     THEN TypeError
     ELSE listResult(SelectSeq(mapped, LAMBDA r : r # NoResult))

\* The child nodes of the lists of the inputs
ListChildNodes ==
  { El("LI", {}, <<Txt(<<"x">>)>>),
    ElBg("LI", {}, hexYellow, <<Txt(<<"y">>)>>),
    ElBg("LI", {}, hexRedUpper, <<El("P", {}, <<Txt(<<"r">>)>>)>>),
    El("LI", {"highlight"}, <<Txt(<<"h">>)>>),
    El("P", {}, <<Txt(<<"p">>)>>),
    El("BLOCKQUOTE", {}, <<Txt(<<"q">>)>>),
    El("UL", {}, <<El("LI", {}, <<Txt(<<"n">>)>>)>>),
    El("LI", {}, <<ElType("A", "block", <<Txt(<<"b">>)>>)>>),
    El("LI", {}, <<ElType("OL", "list", <<>>)>>),
    El("P", {}, <<ElType("A", "block", <<Txt(<<"c">>)>>)>>),
    Txt(<<"t">>) }

InitList ==
  /\ reducePc = "list"
  /\ reduceIn \in { El(tag, {}, kids) :
                      tag \in {"OL", "UL"},
                      kids \in SeqsUpTo(ListChildNodes, MaxItems) }
  /\ reduceOut = <<>>
  /\ PipeIdle /\ TrimIdle /\ ParseIdle /\ ColorIdle /\ SyncIdle

ApplyList ==
  /\ reducePc = "list"
  /\ reduceOut' = convertListElement(reduceIn)
  /\ reducePc' = "listed"
  /\ UNCHANGED reduceIn
  /\ UNCHANGED <<pipeVars, trimVars, parseVars, colorVars, syncVars>>

SpecList == InitList /\ [][ApplyList]_vars

----------------------------------------------------------------------------
(* Properties of convertListElement *)

\* The element children of the list that parseNode classifies as list items,
\* in document order
ListItemsOf(element) ==
  SelectSeq(ElementChildren(element),
            LAMBDA e : parseNode(e).type = "block"
                       /\ parseNode(e).blockType \in
                            {"bulleted_list_item", "numbered_list_item"})

\* C22: convertListElement returns a list result with one block for each
\* element child of the list that parseNode classifies as a bulleted or
\* numbered list item, in document order, of the block type and color of
\* that child; the other children give no block, and no error is raised.
C22_OneBlockPerListItem ==
  reducePc = "listed" =>
    LET items == ListItemsOf(reduceIn)
    IN /\ isListResult(reduceOut)
       /\ Len(reduceOut.results) = Len(items)
       /\ \A k \in DOMAIN items :
            /\ isBlockResult(reduceOut.results[k])
            /\ reduceOut.results[k].block.type =
                 IF reduceIn.tag = "OL" THEN "numbered_list_item"
                 ELSE "bulleted_list_item"
            /\ reduceOut.results[k].block.color =
                 getNotionColor(items[k].node)

====
